---- MODULE Spec2Model ----
(***************************************************************************)
(* Heart-rate reconciliation and training-load (TRIMP) engine of the       *)
(* Garmin heart-rate analyzer: jobs.py (collection job, merge, segment     *)
(* extraction, interval TRIMP) and models.py (TRIMPCalculator).            *)
(*                                                                         *)
(* Numbers.  Python floats are modelled in fixed point:                    *)
(*   - a heart-rate-reserve ratio is an integer in units of 1/Scale;       *)
(*   - a duration is an integer number of milliseconds (one minute is      *)
(*     MsPerMinute of them);                                               *)
(*   - a TRIMP amount is an integer in units of 1/(MsPerMinute*WScale),    *)
(*     i.e. duration_ms * weight where weight is ratio*0.64*exp(1.92*ratio)*)
(*     in units of 1/WScale, rounded away from zero so that its sign is    *)
(*     the sign of the ratio, as in the reals.                             *)
(* Sums of such amounts are exact, which abstracts from float rounding.    *)
(***************************************************************************)
EXTENDS Integers, Sequences, FiniteSets, TLC

VARIABLES
    hr_series,       \* the series handed to a TRIMP / segment computation
    hr_params,       \* <<resting_hr, max_hr>> as get_user_hr_parameters returns
    trimp_out,       \* result of jobs.calculate_trimp, or NoResult
    bucket_out,      \* result of TRIMPCalculator.bucket_heart_rates, or NoResult
    gap_base,        \* total_trimp before a large gap was inserted, or NoResult
    segments_out,    \* result of find_continuous_segments, or NoResult
    hr_in,           \* a heart rate handed to the zone functions
    zone_out,        \* <<categorize_hr_zone, presentation bucket>> or NoResult
    api_daily,       \* what api.get_heart_rates returns for the date
    api_activities,  \* what the activity source returns for the date
    daily_data,      \* the daily_data row of the date, or NoRow
    activity_data,   \* the activity_data rows of the date
    job_status,      \* status of the last background job
    last_merge,      \* what the last merge_activity_hr_into_daily read and wrote
    history,         \* the stored rows after each run of the job
    hr_request,      \* <<resting_hr, max_hr>> a caller supplies, or NoResult
    hr_response,     \* the answer of POST /api/hr-parameters, or NoResult
    calculator,      \* the fields of a constructed TRIMPCalculator, or NoResult
    daily_cache,     \* cached_trimp_data, trimp_calculation_hash of the daily row
    activity_cache,  \* the same two columns of each activity_data row, by id
    cache_read,      \* the answer of get_cached_trimp_data since the last cache write
    recalc_out,      \* how the last recalculate_activity_trimp ended, or NoResult
    cache_calls,     \* the last save or invalidate call made, or NoResult
    type_in,         \* presentation buckets handed to _determine_activity_type
    type_out,        \* the activity type it returned, or NoResult
    metrics_in,      \* an activity's metrics matrix and the daily reference
    detect_out,      \* what each position detector returned for it
    garmin_api,      \* what the Garmin API answers for each date
    job_db,          \* the committed rows of garmin_hr.db, all dates and jobs
    write_lock,      \* the job whose connection holds the write lock, or 0
    job_threads      \* where each collect_garmin_data_job thread stands

vars == <<hr_series, hr_params, trimp_out, bucket_out, gap_base, segments_out,
          hr_in, zone_out, api_daily, api_activities, daily_data,
          activity_data, job_status, last_merge, history,
          hr_request, hr_response, calculator,
          daily_cache, activity_cache, cache_read, recalc_out, cache_calls,
          type_in, type_out, metrics_in, detect_out,
          garmin_api, job_db, write_lock, job_threads>>

pureVars == <<hr_series, hr_params, trimp_out, bucket_out, gap_base, segments_out>>
zoneVars == <<hr_in, zone_out>>
jobVars  == <<api_daily, api_activities, daily_data, activity_data, job_status,
              last_merge, history>>
paramVars == <<hr_request, hr_response, calculator>>

(* The variables no TRIMP, segment, zone or job operation touches *)
cacheVars == <<daily_cache, activity_cache, cache_read, recalc_out, cache_calls>>
typeVars == <<type_in, type_out>>
detectVars == <<metrics_in, detect_out>>
threadVars == <<garmin_api, job_db, write_lock, job_threads>>
otherVars == <<paramVars, cacheVars, typeVars, detectVars, threadVars>>

----------------------------------------------------------------------------
(* Sentinels *)

None == -1                      \* Python None for a timestamp or heart rate
NoResult == [none |-> TRUE]     \* nothing computed yet
NoRow == [norow |-> TRUE]       \* no row for the date
Null == [null |-> TRUE]         \* SQL NULL in a JSON column

(* Fixed-point scales *)
Scale == 100 * 100              \* ratio and exp are held in 1/Scale
WScale == 10 * 10               \* the TRIMP weight is held in 1/WScale
MsPerMinute == 60 * 1000        \* interval_minutes = (ms / 1000) / 60
ExpTerms == 4 + 4               \* Taylor terms used for exp

Abs(x) == IF x < 0 THEN -x ELSE x

----------------------------------------------------------------------------
(* math.exp on a non-negative argument y (in 1/Scale), result in 1/Scale *)
RECURSIVE ExpSeries(_, _, _, _)
ExpSeries(y, k, term, acc) ==
    IF k > ExpTerms THEN acc
    ELSE ExpSeries(y, k + 1, (term * y) \div (k * Scale), acc + term)

Exp(y) ==
    IF y >= 0 THEN ExpSeries(y, 1, Scale, 0)
    ELSE (Scale * Scale) \div ExpSeries(-y, 1, Scale, 0)

(* ratio * 0.64 * exp(1.92 * ratio), ratio in 1/Scale, result in 1/WScale, *)
(* rounded away from zero.                                                 *)
Weight(ratio) ==
    LET mag  == Abs(ratio)
        y    == (192 * mag) \div 100
        e    == Exp(IF ratio >= 0 THEN y ELSE -y)
        m    == (((mag * 64) \div 100) * e) \div Scale
        w    == (m + ((Scale \div WScale) - 1)) \div (Scale \div WScale)
    IN  IF ratio = 0 THEN 0 ELSE IF ratio > 0 THEN w ELSE -w

(* Python true division a / b for b # 0, in 1/Scale, truncated toward zero *)
Ratio(a, b) ==
    IF (a >= 0) = (b > 0) THEN (Abs(a) * Scale) \div Abs(b)
    ELSE -((Abs(a) * Scale) \div Abs(b))

----------------------------------------------------------------------------
(* jobs.categorize_hr_zone *)
categorize_hr_zone(hr) ==
    IF hr < 80 THEN "Below 80"
    ELSE IF hr < 90 THEN "80-89"
    ELSE IF hr < 100 THEN "90-99"
    ELSE IF hr < 110 THEN "100-109"
    ELSE IF hr < 120 THEN "110-119"
    ELSE IF hr < 130 THEN "120-129"
    ELSE IF hr < 140 THEN "130-139"
    ELSE IF hr < 150 THEN "140-149"
    ELSE IF hr < 160 THEN "150-159"
    ELSE "160+"

(* The fixed zone buckets from 80 bpm upward, in order *)
ZoneNames == <<"80-89", "90-99", "100-109", "110-119", "120-129",
               "130-139", "140-149", "150-159", "160+">>

ZoneSet == {ZoneNames[i] : i \in 1..Len(ZoneNames)}

(* TRIMPCalculator.presentation_buckets: inclusive (min_hr, max_hr) pairs *)
presentation_buckets ==
    <<<<80, 89>>, <<90, 99>>, <<100, 109>>, <<110, 119>>, <<120, 129>>,
      <<130, 139>>, <<140, 149>>, <<150, 159>>, <<160, 999>>>>

(* The loop of bucket_heart_rates over presentation_buckets: the names of  *)
(* the buckets the heart rate is added to (first match, then break).       *)
RECURSIVE FirstBucket(_, _)
FirstBucket(hr, i) ==
    IF i > Len(presentation_buckets) THEN {}
    ELSE IF presentation_buckets[i][1] <= hr /\ hr <= presentation_buckets[i][2]
         THEN {ZoneNames[i]}
         ELSE FirstBucket(hr, i + 1)

presentation_bucket_of(hr) == FirstBucket(hr, 1)

----------------------------------------------------------------------------
(* TRIMPCalculator.calculate_hr_reserve_ratio *)
calculate_hr_reserve_ratio(hr, params) ==
    IF hr <= params[1] THEN 0
    ELSE Ratio(hr - params[1], params[2] - params[1])

(* TRIMPCalculator.calculate_trimp_for_hr, minutes given in milliseconds *)
calculate_trimp_for_hr(hr, ms, params) ==
    IF hr < 80 THEN 0
    ELSE ms * Weight(calculate_hr_reserve_ratio(hr, params))

(* dict[zone] += (minutes, trimp), creating the entry when missing *)
AddToZone(zones, z, ms, t) ==
    [k \in (DOMAIN zones) \cup {z} |->
        IF k = z
        THEN [minutes |-> (IF z \in DOMAIN zones THEN zones[z].minutes ELSE 0) + ms,
              trimp   |-> (IF z \in DOMAIN zones THEN zones[z].trimp ELSE 0) + t]
        ELSE zones[k]]

EmptyZones == [z \in {} |-> [minutes |-> 0, trimp |-> 0]]

ZeroZones == [z \in ZoneSet |-> [minutes |-> 0, trimp |-> 0]]

(* The for-loop of jobs.calculate_trimp from index i on *)
RECURSIVE TrimpLoop(_, _, _, _, _)
TrimpLoop(s, params, i, total, zones) ==
    IF i > Len(s) THEN [total_trimp |-> total, zones |-> zones]
    ELSE
      LET current_ts == s[i][1]
          current_hr == s[i][2]
          prev_ts    == s[i - 1][1]
          prev_hr    == s[i - 1][2]
      IN
      IF current_ts = None \/ current_hr = None \/ prev_ts = None \/ prev_hr = None
      THEN TrimpLoop(s, params, i + 1, total, zones)
      ELSE IF current_ts - prev_ts > 300 * 1000
      THEN TrimpLoop(s, params, i + 1, total, zones)
      ELSE
        LET ms          == current_ts - prev_ts
            hr_reserve  == Ratio(current_hr - params[1], params[2] - params[1])
            trimp_value == ms * Weight(hr_reserve)
            zone        == categorize_hr_zone(current_hr)
        IN TrimpLoop(s, params, i + 1, total + trimp_value,
                     AddToZone(zones, zone, ms, trimp_value))

(* jobs.calculate_trimp *)
calculate_trimp(s, params) ==
    IF Len(s) < 2 THEN [total_trimp |-> 0, zones |-> EmptyZones]
    ELSE TrimpLoop(s, params, 2, 0, EmptyZones)

(* The for-loop of TRIMPCalculator.bucket_heart_rates from index i on *)
RECURSIVE BucketLoop(_, _, _, _, _, _)
BucketLoop(s, params, i, total, zones, per_bpm) ==
    IF i > Len(s)
    THEN [total_trimp |-> total, presentation_buckets |-> zones, trimp_data |-> per_bpm]
    ELSE
      LET hr == s[i][2] IN
      IF hr # None /\ hr >= 80
      THEN
        LET trimp == calculate_trimp_for_hr(hr, MsPerMinute, params)
            b     == presentation_bucket_of(hr)
            z2    == IF b = {} THEN zones
                     ELSE AddToZone(zones, CHOOSE z \in b : TRUE, MsPerMinute, trimp)
            p2    == [k \in (DOMAIN per_bpm) \cup {hr} |->
                        IF k = hr
                        THEN (IF hr \in DOMAIN per_bpm THEN per_bpm[hr] ELSE 0) + trimp
                        ELSE per_bpm[k]]
        IN BucketLoop(s, params, i + 1, total + trimp, z2, p2)
      ELSE BucketLoop(s, params, i + 1, total, zones, per_bpm)

(* TRIMPCalculator.bucket_heart_rates on {'heartRateValues': s} *)
bucket_heart_rates(s, params) ==
    BucketLoop(s, params, 1, 0, ZeroZones, [k \in {} |-> 0])

----------------------------------------------------------------------------
(* jobs.find_continuous_segments *)

(* time_diff = (current_ts - prev_ts) / 1000; time_diff > 60 *)
SplitsAfterStrict(ms) == ms >= 60 * 1000
SplitsAfter(ms) == ms > 60 * 1000

(* The for-loop of find_continuous_segments from index i on *)
RECURSIVE SegmentLoop(_, _, _, _)
SegmentLoop(s, i, segments, current_segment) ==
    IF i > Len(s)
    THEN IF current_segment # <<>> THEN Append(segments, current_segment) ELSE segments
    ELSE IF SplitsAfter(s[i][1] - s[i - 1][1])
         THEN SegmentLoop(s, i + 1,
                          IF current_segment # <<>>
                          THEN Append(segments, current_segment) ELSE segments,
                          <<s[i]>>)
         ELSE SegmentLoop(s, i + 1, segments, Append(current_segment, s[i]))

find_continuous_segments(s) ==
    IF Len(s) < 2 THEN (IF s # <<>> THEN <<s>> ELSE <<>>)
    ELSE SegmentLoop(s, 2, <<>>, <<s[1]>>)

(* The samples of a list of segments, in order *)
RECURSIVE Concat(_)
Concat(segs) == IF segs = <<>> THEN <<>> ELSE Head(segs) \o Concat(Tail(segs))

----------------------------------------------------------------------------
(* jobs.merge_activity_hr_into_daily and construct_daily_data_from_activities *)
(*                                                                          *)
(* A sample is <<timestamp_ms, heart_rate, source>>; the third component is *)
(* bookkeeping of where the sample came from (DailySource or an activity    *)
(* id) and is read by no operation.                                         *)

DailySource == 0

(* list.sort(key=lambda x: x[0]): stable, ascending by timestamp *)
RECURSIVE InsertByTs(_, _)
InsertByTs(sorted, p) ==
    IF sorted = <<>> THEN <<p>>
    ELSE IF sorted[Len(sorted)][1] <= p[1] THEN Append(sorted, p)
    ELSE Append(InsertByTs(SubSeq(sorted, 1, Len(sorted) - 1), p), sorted[Len(sorted)])

RECURSIVE SortByTs(_)
SortByTs(s) ==
    IF s = <<>> THEN <<>>
    ELSE InsertByTs(SortByTs(SubSeq(s, 1, Len(s) - 1)), s[Len(s)])

(* point[0] < segment_start or point[0] > segment_end *)
OutsideKeepsStart(ts, segment_start, segment_end) ==
    ts <= segment_start \/ ts > segment_end
OutsideDropsLater(ts, segment_start, segment_end) ==
    ts < segment_start
OutsideSegment(ts, segment_start, segment_end) ==
    ts < segment_start \/ ts > segment_end

(* The "for segment in segments" loop of the merge from segment k on *)
RECURSIVE ReplaceSegments(_, _, _)
ReplaceSegments(daily_hr_series, segs, k) ==
    IF k > Len(segs) THEN daily_hr_series
    ELSE
      LET segment       == segs[k]
          segment_start == segment[1][1]
          segment_end   == segment[Len(segment)][1]
          kept          == SelectSeq(daily_hr_series,
                              LAMBDA point :
                                  OutsideSegment(point[1], segment_start, segment_end))
      IN ReplaceSegments(kept \o segment, segs, k + 1)

(* SELECT ... FROM activity_data WHERE date = ? AND heart_rate_series IS   *)
(* NOT NULL ORDER BY start_time_local, as a sequence of rows               *)
RECURSIVE OrderByStartDescending(_)
OrderByStartDescending(rows) ==
    IF rows = {} THEN <<>>
    ELSE LET first == CHOOSE r \in rows :
                          \A q \in rows : r.start_time_local >= q.start_time_local
         IN <<first>> \o OrderByStartDescending(rows \ {first})
RECURSIVE OrderByStart(_)
OrderByStart(rows) ==
    IF rows = {} THEN <<>>
    ELSE LET first == CHOOSE r \in rows :
                          \A q \in rows : r.start_time_local <= q.start_time_local
         IN <<first>> \o OrderByStart(rows \ {first})

(* The "for activity in activities" loop of the merge from activity k on *)
RECURSIVE MergeActivitiesStops(_, _, _)
MergeActivitiesStops(daily_hr_series, activities, k) ==
    IF k > Len(activities) THEN daily_hr_series
    ELSE
      LET activity_hr_series == activities[k].heart_rate_series IN
      IF activity_hr_series = <<>>
      THEN daily_hr_series
      ELSE MergeActivitiesStops(
               SortByTs(ReplaceSegments(daily_hr_series,
                                        find_continuous_segments(activity_hr_series), 1)),
               activities, k + 1)
RECURSIVE MergeActivities(_, _, _)
MergeActivities(daily_hr_series, activities, k) ==
    IF k > Len(activities) THEN daily_hr_series
    ELSE
      LET activity_hr_series == activities[k].heart_rate_series IN
      IF activity_hr_series = <<>>
      THEN MergeActivities(daily_hr_series, activities, k + 1)
      ELSE MergeActivities(
               SortByTs(ReplaceSegments(daily_hr_series,
                                        find_continuous_segments(activity_hr_series), 1)),
               activities, k + 1)

(* merge_activity_hr_into_daily: the daily_data row it leaves *)
merge_activity_hr_into_daily(row, rows, params) ==
    IF row = NoRow THEN row
    ELSE
      LET daily_hr_series == MergeActivities(row.heart_rate_series, OrderByStart(rows), 1)
          t               == calculate_trimp(daily_hr_series, params)
      IN [heart_rate_series |-> daily_hr_series,
          trimp_data        |-> [presentation_buckets |-> t.zones,
                                 total_trimp |-> t.total_trimp],
          total_trimp       |-> t.total_trimp]

(* The "for activity in activities" loop of the construction from k on *)
RECURSIVE CollectAll(_, _, _)
CollectAll(all_hr_series, activities, k) ==
    IF k > Len(activities) THEN all_hr_series
    ELSE
      LET activity_hr_series == activities[k].heart_rate_series IN
      IF activity_hr_series = <<>>
      THEN CollectAll(all_hr_series, activities, k + 1)
      ELSE CollectAll(all_hr_series \o Concat(find_continuous_segments(activity_hr_series)),
                      activities, k + 1)

(* construct_daily_data_from_activities: the daily_data row it leaves.    *)
(* date is the primary key of daily_data, so the INSERT raises when a row  *)
(* exists; the caller catches that and goes on.                            *)
construct_without_empty_check(row, rows, params) ==
    LET activities    == OrderByStart(rows)
        all_hr_series == SortByTs(CollectAll(<<>>, activities, 1))
        analysis      == bucket_heart_rates(all_hr_series, params)
    IN IF rows = {} THEN row
       ELSE IF row # NoRow THEN row
       ELSE [heart_rate_series |-> all_hr_series,
             trimp_data        |-> [per_bpm |-> analysis.trimp_data],
             total_trimp       |-> analysis.total_trimp]
construct_daily_data_from_activities(row, rows, params) ==
    LET activities    == OrderByStart(rows)
        all_hr_series == SortByTs(CollectAll(<<>>, activities, 1))
        analysis      == bucket_heart_rates(all_hr_series, params)
    IN IF rows = {} \/ all_hr_series = <<>> THEN row
       ELSE IF row # NoRow THEN row
       ELSE [heart_rate_series |-> all_hr_series,
             trimp_data        |-> [per_bpm |-> analysis.trimp_data],
             total_trimp       |-> analysis.total_trimp]

(* The activity_data row collect_activities_for_date inserts for one      *)
(* activity whose extracted series is a.hr_series (empty when the HR or    *)
(* timestamp column was not found).                                        *)
ActivityRow(a, params) ==
    LET t == calculate_trimp(a.hr_series, params) IN
    [activity_id       |-> a.activityId,
     start_time_local  |-> a.startTimeLocal,
     heart_rate_series |-> a.hr_series,
     trimp_data        |-> IF a.hr_series # <<>>
                           THEN [presentation_buckets |-> t.zones,
                                 total_trimp |-> t.total_trimp]
                           ELSE [zones |-> EmptyZones, total_trimp |-> 0],
     total_trimp       |-> IF a.hr_series # <<>> THEN t.total_trimp ELSE 0]

----------------------------------------------------------------------------
(* Bounded inputs of the TRIMP computations *)

MaxLen == 3                                  \* longest series handed to TRIMP
TrimpGaps == {30 * 1000, 300 * 1000, 300 * 1000 + 1}
TrimpHRs == {None, 40, 70, 82, 120, 165}
HRParams == {<<48, 167>>, <<85, 185>>}       \* (resting_hr, max_hr)
LargeGap == 300 * 1000 + 1                   \* the smallest gap above 300 s

RECURSIVE TsAt(_, _)
TsAt(g, i) == IF i <= 1 THEN 0 ELSE TsAt(g, i - 1) + g[i - 1]

(* All series of n samples with gaps drawn from gaps and rates from hrs *)
SeriesOfLen(n, gaps, hrs) ==
    IF n = 0 THEN {<<>>}
    ELSE {[i \in 1..n |-> <<TsAt(g, i), h[i]>>] :
              g \in [1..(n - 1) -> gaps], h \in [1..n -> hrs]}

SeriesUpTo(maxlen, gaps, hrs) ==
    UNION {SeriesOfLen(n, gaps, hrs) : n \in 0..maxlen}

(* s with the samples from position i on shifted later by d milliseconds *)
ShiftFrom(s, i, d) ==
    [j \in 1..Len(s) |-> IF j >= i THEN <<s[j][1] + d, s[j][2]>> ELSE s[j]]

PureIdle ==
    /\ hr_series = <<>>
    /\ hr_params = <<48, 167>>
    /\ trimp_out = NoResult
    /\ bucket_out = NoResult
    /\ gap_base = NoResult
    /\ segments_out = NoResult

ZoneIdle ==
    /\ hr_in = None
    /\ zone_out = NoResult

ParamIdle ==
    /\ hr_request = NoResult
    /\ hr_response = NoResult
    /\ calculator = NoResult

(* Both cache columns NULL, as every INSERT of a row leaves them *)
NullCache == [cached_trimp_data |-> Null, trimp_calculation_hash |-> None]

CacheIdle ==
    /\ daily_cache = NullCache
    /\ activity_cache = [id \in {} |-> NullCache]
    /\ cache_read = NoResult
    /\ recalc_out = NoResult
    /\ cache_calls = NoResult

TypeIdle ==
    /\ type_in = NoResult
    /\ type_out = NoResult

DetectIdle ==
    /\ metrics_in = NoResult
    /\ detect_out = NoResult

ThreadIdle ==
    /\ garmin_api = NoResult
    /\ job_db = NoResult
    /\ write_lock = 0
    /\ job_threads = NoResult

OtherIdle == ParamIdle /\ CacheIdle /\ TypeIdle /\ DetectIdle /\ ThreadIdle

JobIdle ==
    /\ api_daily = NoRow
    /\ api_activities = NoRow
    /\ daily_data = NoRow
    /\ activity_data = {}
    /\ job_status = "pending"
    /\ last_merge = NoResult
    /\ history = <<>>

----------------------------------------------------------------------------
(* TRIMP computations on one series *)

InitTrimp ==
    /\ hr_series \in SeriesUpTo(MaxLen, TrimpGaps, TrimpHRs)
    /\ hr_params \in HRParams
    /\ trimp_out = NoResult
    /\ bucket_out = NoResult
    /\ gap_base = NoResult
    /\ segments_out = NoResult
    /\ ZoneIdle
    /\ JobIdle
    /\ OtherIdle

(* total_trimp, trimp_breakdown = calculate_trimp(hr_series) *)
CalculateTrimp ==
    /\ trimp_out = NoResult
    /\ trimp_out' = calculate_trimp(hr_series, hr_params)
    /\ UNCHANGED <<hr_series, hr_params, bucket_out, gap_base, segments_out>>
    /\ UNCHANGED <<zoneVars, jobVars, otherVars>>

(* TRIMPCalculator(resting_hr, max_hr).bucket_heart_rates(...) *)
BucketHeartRates ==
    /\ trimp_out # NoResult
    /\ bucket_out = NoResult
    /\ bucket_out' = bucket_heart_rates(hr_series, hr_params)
    /\ UNCHANGED <<hr_series, hr_params, trimp_out, gap_base, segments_out>>
    /\ UNCHANGED <<zoneVars, jobVars, otherVars>>

(* The same series with one normal gap widened to more than 300 s, as     *)
(* test_large_gap.py builds it; the earlier total is kept for comparison. *)
InsertLargeGap ==
    /\ bucket_out # NoResult
    /\ gap_base = NoResult
    /\ \E i \in 2..Len(hr_series) :
          LET gap == hr_series[i][1] - hr_series[i - 1][1] IN
          /\ gap <= 300 * 1000
          /\ hr_series' = ShiftFrom(hr_series, i, LargeGap - gap)
          /\ gap_base' = [total_trimp |-> trimp_out.total_trimp,
                          bucket_total |-> bucket_out.total_trimp,
                          at |-> i]
    /\ trimp_out' = NoResult
    /\ bucket_out' = NoResult
    /\ UNCHANGED <<hr_params, segments_out>>
    /\ UNCHANGED <<zoneVars, jobVars, otherVars>>

NextTrimp == CalculateTrimp \/ BucketHeartRates \/ InsertLargeGap

SpecTrimp == InitTrimp /\ [][NextTrimp]_vars

----------------------------------------------------------------------------
(* The collection job for one date *)

MaxActs == 2                                 \* activities of the date
MaxRuns == 2                                 \* runs of the job for the date

(* The instants at which the daily source or an activity may hold a       *)
(* sample: 20 s, 40 s and 70 s apart, so that the first and the third are  *)
(* exactly 60 s apart (one segment, with the second inside its range) and  *)
(* the third and the fourth more than 60 s apart (two segments).           *)
SlotTimes == <<0, 20 * 1000, 60 * 1000, 130 * 1000>>

Slots == 1..Len(SlotTimes)

SlotTs(i) == SlotTimes[i]

DailyHr(i) == 70 + 10 * (i % 3)
ActHr(id, i) == 100 + 20 * id + i

(* The slots of S in ascending order *)
RECURSIVE SlotSeq(_)
SlotSeq(S) ==
    IF S = {} THEN <<>>
    ELSE LET m == CHOOSE x \in S : \A y \in S : x <= y
         IN <<m>> \o SlotSeq(S \ {m})

DailySeries(S) ==
    LET q == SlotSeq(S) IN [k \in 1..Len(q) |-> <<SlotTs(q[k]), DailyHr(q[k]), DailySource>>]

ActSeries(id, S) ==
    LET q == SlotSeq(S) IN [k \in 1..Len(q) |-> <<SlotTs(q[k]), ActHr(id, q[k]), id>>]

(* What the job meets before and when it asks for the daily heart rates *)
DailyInputs ==
    {[kind |-> k] : k \in {"no_credentials", "no_encryption_key", "api_error",
                           "no_response", "no_values_key"}}
    \cup {[kind |-> "values", heartRateValues |-> DailySeries(S)] : S \in SUBSET Slots}

(* What api.get_activities_fordate answers: an error, or n activities,     *)
(* most recent first, each with the series its details yield.              *)
ActivityLists(n) ==
    {[k \in 1..n |->
         [activityId     |-> k,
          startTimeLocal |-> n + 1 - k,
          hr_series      |-> ActSeries(k, f[k])]] :
       f \in [1..n -> SUBSET Slots]}

ActivityInputs ==
    {[kind |-> "error"]}
    \cup {[kind |-> "list", activities |-> acts] :
             acts \in UNION {ActivityLists(n) : n \in 0..MaxActs}}

(* The activity source holds any of its answers whenever the daily source  *)
(* can be reached; when the job fails before it logs in, the source is not *)
(* looked at and is left empty.                                            *)
Init ==
    /\ api_daily \in DailyInputs
    /\ api_activities \in
          IF api_daily.kind \in {"values", "no_response", "no_values_key"}
          THEN ActivityInputs
          ELSE {[kind |-> "list", activities |-> <<>>]}
    /\ hr_params \in HRParams
    /\ daily_data = NoRow
    /\ activity_data = {}
    /\ job_status = "pending"
    /\ last_merge = NoResult
    /\ history = <<>>
    /\ hr_series = <<>>
    /\ trimp_out = NoResult
    /\ bucket_out = NoResult
    /\ gap_base = NoResult
    /\ segments_out = NoResult
    /\ ZoneIdle
    /\ OtherIdle

(* A heartRateValues entry that is None itself (not a pair) *)
NoneElement == <<None, None, None>>

IsNoneElement(value) == value[3] = None

(* The merge compares point[0] of every daily point with the bounds of     *)
(* every segment; a None timestamp makes that comparison raise TypeError.  *)
MergeRaises(row, rows) ==
    /\ row # NoRow
    /\ \E i \in 1..Len(row.heart_rate_series) : row.heart_rate_series[i][1] = None
    /\ \E r \in rows : r.heart_rate_series # <<>>

(* collect_activities_for_date: whether it returned normally, the rows it  *)
(* leaves (a failure after the DELETE and INSERTs leaves them to the       *)
(* commit of the caller), whether it replaced the activity rows and what   *)
(* its merge read and wrote                                                *)
collect_activities_for_date(api, row, rows, params) ==
    IF api.kind = "error"
    THEN [ok |-> FALSE, daily_data |-> row, activity_data |-> rows,
          replaced |-> FALSE, merge |-> NoResult]
    ELSE IF api.activities = <<>>
    THEN [ok |-> TRUE, daily_data |-> row, activity_data |-> rows,
          replaced |-> FALSE, merge |-> NoResult]
    ELSE
      LET new_rows == {ActivityRow(api.activities[k], params) :
                          k \in 1..Len(api.activities)}
          merged   == merge_activity_hr_into_daily(row, new_rows, params)
      IN IF MergeRaises(row, new_rows)
         THEN [ok |-> FALSE, daily_data |-> row, activity_data |-> new_rows,
               replaced |-> TRUE, merge |-> NoResult]
         ELSE
         [ok |-> TRUE, daily_data |-> merged, activity_data |-> new_rows,
          replaced |-> TRUE,
          merge |-> IF row = NoRow THEN NoResult
                    ELSE [input      |-> row.heart_rate_series,
                          activities |-> OrderByStart(new_rows),
                          output     |-> merged.heart_rate_series]]

(* The daily_data row the job stores from the daily answer (DELETE, then   *)
(* INSERT with the analysis of HeartRateAnalyzer), or the row as it was     *)
(* when the answer has no samples.                                          *)
StoreDaily(heart_rate_values, row, params) ==
    IF heart_rate_values # <<>>
    THEN LET analysis == bucket_heart_rates(heart_rate_values, params)
         IN [heart_rate_series |-> heart_rate_values,
             trimp_data        |-> [per_bpm |-> analysis.trimp_data],
             total_trimp       |-> analysis.total_trimp]
    ELSE row

(* collect_garmin_data_job(target_date, job_id), start to end.  The cache   *)
(* columns of a row go with the row: DELETE and INSERT leave them NULL, the *)
(* UPDATE of the merge does not name them.  Each history entry also notes   *)
(* whether a TRIMP calculator was run for the date's series and the cache   *)
(* columns before and after the run.                                        *)
CollectGarminDataJob ==
    /\ Len(history) < MaxRuns
    /\ IF api_daily.kind \in {"no_credentials", "no_encryption_key", "api_error"}
       THEN /\ job_status' = "failed"
            /\ UNCHANGED <<daily_data, activity_data, daily_cache, activity_cache>>
            /\ last_merge' = NoResult
       ELSE IF \/ api_daily.kind \in {"no_response", "no_values_key"}
               \/ \E i \in 1..Len(api_daily.heartRateValues) :
                      IsNoneElement(api_daily.heartRateValues[i])
       THEN /\ job_status' = "completed"
            /\ UNCHANGED <<daily_data, activity_data, daily_cache, activity_cache>>
            /\ last_merge' = NoResult
       ELSE
         LET heart_rate_values == api_daily.heartRateValues
             has_daily_hr_data == heart_rate_values # <<>>
         IN \E c \in {collect_activities_for_date(
                          api_activities,
                          StoreDaily(heart_rate_values, daily_data, hr_params),
                          activity_data, hr_params)} :
              /\ job_status' = IF c.ok THEN "completed" ELSE "failed"
              /\ daily_data' = IF ~has_daily_hr_data /\ c.ok
                               THEN construct_daily_data_from_activities(
                                        c.daily_data, c.activity_data, hr_params)
                               ELSE c.daily_data
              /\ activity_data' = c.activity_data
              /\ last_merge' = c.merge
              /\ daily_cache' = IF has_daily_hr_data THEN NullCache ELSE daily_cache
              /\ activity_cache' =
                    IF c.replaced
                    THEN [id \in {a.activity_id : a \in c.activity_data} |-> NullCache]
                    ELSE activity_cache
    /\ history' = Append(history,
                         [daily_data   |-> daily_data',
                          status       |-> job_status',
                          merged       |-> last_merge' # NoResult,
                          calculated   |-> \/ last_merge' # NoResult
                                          \/ /\ api_daily.kind = "values"
                                             /\ api_daily.heartRateValues # <<>>
                                             /\ \A j \in 1..Len(api_daily.heartRateValues) :
                                                   ~IsNoneElement(api_daily.heartRateValues[j])
                                          \/ /\ daily_data = NoRow
                                             /\ daily_data' # NoRow,
                          cache_before |-> daily_cache,
                          cache_after  |-> daily_cache'])
    /\ UNCHANGED <<api_daily, api_activities, pureVars, zoneVars, paramVars,
                   cache_read, recalc_out, cache_calls, typeVars, detectVars, threadVars>>

Next == CollectGarminDataJob

Spec == Init /\ [][Next]_vars

----------------------------------------------------------------------------
(* Properties of the TRIMP computations *)

(* Sum of the trimp of the fixed zone buckets ZoneNames[i..] held in zones *)
RECURSIVE SumZoneTrimp(_, _)
SumZoneTrimp(zones, i) ==
    IF i > Len(ZoneNames) THEN 0
    ELSE (IF ZoneNames[i] \in DOMAIN zones THEN zones[ZoneNames[i]].trimp ELSE 0)
         + SumZoneTrimp(zones, i + 1)

AllZero(zones) ==
    \A z \in DOMAIN zones : zones[z].minutes = 0 /\ zones[z].trimp = 0

(* Every interval's right endpoint (positions 2..n) satisfies P *)
RightEndpoints(s) == {s[i][2] : i \in 2..Len(s)}

(* C2: the total_trimp a TRIMP computation returns equals the sum of the   *)
(* trimp of the fixed zone buckets 80-89 .. 160+ of the same result, for   *)
(* jobs.calculate_trimp and for TRIMPCalculator.bucket_heart_rates.        *)
C2_SumInvariant ==
    /\ trimp_out # NoResult =>
          trimp_out.total_trimp = SumZoneTrimp(trimp_out.zones, 1)
    /\ bucket_out # NoResult =>
          bucket_out.total_trimp = SumZoneTrimp(bucket_out.presentation_buckets, 1)

(* C3: widening one normal gap of a series to more than 300 s, all else    *)
(* unchanged, never increases total_trimp, whatever the heart rates are.   *)
C3_GapNeverIncreases ==
    (gap_base # NoResult /\ trimp_out # NoResult) =>
        trimp_out.total_trimp <= gap_base.total_trimp

(* C6: an interval whose right-endpoint heart rate is below 80 adds zero   *)
(* to total_trimp and neither minutes nor trimp to any bucket: no bucket   *)
(* for rates below 80 ever holds anything, and a series whose right        *)
(* endpoints are all below 80 has total_trimp 0 and all buckets zero.      *)
C6_BelowThresholdAddsNothing ==
    /\ trimp_out # NoResult =>
          /\ \A z \in DOMAIN trimp_out.zones :
                z \notin ZoneSet =>
                    trimp_out.zones[z].minutes = 0 /\ trimp_out.zones[z].trimp = 0
          /\ (\A h \in RightEndpoints(hr_series) : h # None /\ h < 80) =>
                trimp_out.total_trimp = 0 /\ AllZero(trimp_out.zones)
    /\ bucket_out # NoResult =>
          ((\A i \in 1..Len(hr_series) : hr_series[i][2] # None /\ hr_series[i][2] < 80) =>
                bucket_out.total_trimp = 0 /\ AllZero(bucket_out.presentation_buckets))

(* C7: a heart rate at or below resting_hr contributes exactly 0, so no    *)
(* total and no zone trimp is ever negative, in both computations.         *)
C7_ReserveClamp ==
    /\ trimp_out # NoResult =>
          /\ trimp_out.total_trimp >= 0
          /\ \A z \in DOMAIN trimp_out.zones : trimp_out.zones[z].trimp >= 0
          /\ (\A h \in RightEndpoints(hr_series) : h # None /\ h <= hr_params[1]) =>
                trimp_out.total_trimp = 0
    /\ bucket_out # NoResult =>
          /\ bucket_out.total_trimp >= 0
          /\ \A z \in DOMAIN bucket_out.presentation_buckets :
                bucket_out.presentation_buckets[z].trimp >= 0
          /\ (\A i \in 1..Len(hr_series) :
                  hr_series[i][2] # None /\ hr_series[i][2] <= hr_params[1]) =>
                bucket_out.total_trimp = 0

(* C8: for a series of length 0 or 1 every TRIMP computation returns       *)
(* total_trimp 0 with no zone bucket holding minutes or trimp.             *)
C8_DegenerateIsZero ==
    Len(hr_series) < 2 =>
        /\ trimp_out # NoResult =>
              trimp_out.total_trimp = 0 /\ AllZero(trimp_out.zones)
        /\ bucket_out # NoResult =>
              bucket_out.total_trimp = 0 /\ AllZero(bucket_out.presentation_buckets)

----------------------------------------------------------------------------
(* Segment extraction on one series *)

MaxSegLen == 3                               \* longest series handed to it
SegGaps == {30 * 1000, 60 * 1000, 60 * 1000 + 1, 70 * 1000}
SegHRs == {100, 101, 102}

InitSeg ==
    /\ hr_series \in SeriesUpTo(MaxSegLen, SegGaps, SegHRs)
    /\ hr_params = <<48, 167>>
    /\ trimp_out = NoResult
    /\ bucket_out = NoResult
    /\ gap_base = NoResult
    /\ segments_out = NoResult
    /\ ZoneIdle
    /\ JobIdle
    /\ OtherIdle

(* segments = find_continuous_segments(activity_hr_series) *)
FindContinuousSegments ==
    /\ segments_out = NoResult
    /\ segments_out' = [segs |-> find_continuous_segments(hr_series)]
    /\ UNCHANGED <<hr_series, hr_params, trimp_out, bucket_out, gap_base>>
    /\ UNCHANGED <<zoneVars, jobVars, otherVars>>

NextSeg == FindContinuousSegments

SpecSeg == InitSeg /\ [][NextSeg]_vars

(* Number of samples in segs[1..k] *)
RECURSIVE LenUpTo(_, _)
LenUpTo(segs, k) == IF k = 0 THEN 0 ELSE LenUpTo(segs, k - 1) + Len(segs[k])

(* Index of the segment that holds position p of the concatenation *)
SegmentOf(segs, p) ==
    CHOOSE k \in 1..Len(segs) : LenUpTo(segs, k - 1) < p /\ p <= LenUpTo(segs, k)

SegmentExample == <<<<0, 100>>, <<30000, 101>>, <<100000, 102>>>>

(* C9: find_continuous_segments returns non-empty segments whose           *)
(* concatenation is the input; consecutive samples share a segment iff     *)
(* their gap is at most 60 000 ms; empty input gives no segment, a single  *)
(* sample one segment, and the worked example splits after 30 000.         *)
C9_SegmentsPartitionAtGaps ==
    segments_out # NoResult =>
        LET segs == segments_out.segs IN
        /\ \A k \in 1..Len(segs) : segs[k] # <<>>
        /\ Concat(segs) = hr_series
        /\ \A p \in 1..(Len(hr_series) - 1) :
              (SegmentOf(segs, p) = SegmentOf(segs, p + 1))
                  <=> (hr_series[p + 1][1] - hr_series[p][1] <= 60000)
        /\ (hr_series = <<>>) => (segs = <<>>)
        /\ (Len(hr_series) = 1) => (segs = <<hr_series>>)
        /\ (hr_series = SegmentExample) =>
              (segs = <<<<<<0, 100>>, <<30000, 101>>>>, <<<<100000, 102>>>>>>)

(* A series with a gap of exactly 60 s kept together and a larger gap split *)
C9_Witness ==
    /\ segments_out # NoResult
    /\ Len(hr_series) = 3
    /\ hr_series[2][1] - hr_series[1][1] = 60000
    /\ hr_series[3][1] - hr_series[2][1] = 60001
    /\ Len(segments_out.segs) = 2
    /\ Len(segments_out.segs[1]) = 2

----------------------------------------------------------------------------
(* Zone assignment of one heart rate *)

MaxZoneHR == 1000                            \* largest heart rate tried

InitZone ==
    /\ hr_in \in 0..MaxZoneHR
    /\ zone_out = NoResult
    /\ PureIdle
    /\ JobIdle
    /\ OtherIdle

(* zone = categorize_hr_zone(current_hr, resting_hr, max_hr) *)
CategorizeHrZone ==
    /\ zone_out = NoResult
    /\ zone_out' = [zone |-> categorize_hr_zone(hr_in)]
    /\ UNCHANGED <<hr_in, pureVars, jobVars, otherVars>>

(* the presentation-bucket loop of bucket_heart_rates for one reading *)
PresentationBucket ==
    /\ zone_out # NoResult
    /\ DOMAIN zone_out = {"zone"}
    /\ zone_out' = [zone |-> zone_out.zone, buckets |-> presentation_bucket_of(hr_in)]
    /\ UNCHANGED <<hr_in, pureVars, jobVars, otherVars>>

NextZone == CategorizeHrZone \/ PresentationBucket

SpecZone == InitZone /\ [][NextZone]_vars

(* The bucket with inclusive bounds lower..lower+9 that holds hr, 160+ last *)
ExpectedZone(hr) ==
    IF hr >= 160 THEN "160+" ELSE ZoneNames[((hr - 80) \div 10) + 1]

(* C10: every heart rate >= 80 is assigned exactly one zone bucket, the    *)
(* one whose inclusive bounds hold it (every rate >= 160 goes to 160+),    *)
(* and categorize_hr_zone and the presentation buckets agree on it.        *)
C10_ExhaustiveBuckets ==
    (zone_out # NoResult /\ "buckets" \in DOMAIN zone_out /\ hr_in >= 80) =>
        /\ zone_out.zone = ExpectedZone(hr_in)
        /\ zone_out.buckets = {zone_out.zone}

----------------------------------------------------------------------------
(* Properties of the merge and of the job *)

(* The closed timestamp ranges <<first, last>> of the segments of a series *)
SegmentRanges(series) ==
    LET segs == find_continuous_segments(series)
    IN {<<segs[k][1][1], segs[k][Len(segs[k])][1]>> : k \in 1..Len(segs)}

InRange(t, range) == range[1] <= t /\ t <= range[2]

(* t lies inside a segment range of the activity row a *)
Covers(a, t) == \E range \in SegmentRanges(a.heart_rate_series) : InRange(t, range)

(* t lies inside a segment range of some merged activity *)
Covered(activities, t) == \E k \in 1..Len(activities) : Covers(activities[k], t)

(* The position, in the order the merge applies them, of the last activity *)
(* that has a segment range around t                                       *)
LastCovering(activities, t) ==
    CHOOSE k \in 1..Len(activities) :
        /\ Covers(activities[k], t)
        /\ \A j \in (k + 1)..Len(activities) : ~Covers(activities[j], t)

SamplesAt(series, t) == {series[i] : i \in {j \in 1..Len(series) : series[j][1] = t}}

Occurrences(series, ts, hr) ==
    Cardinality({i \in 1..Len(series) : series[i][1] = ts /\ series[i][2] = hr})

MergeTimes ==
    {last_merge.output[i][1] : i \in 1..Len(last_merge.output)}
    \cup {last_merge.input[i][1] : i \in 1..Len(last_merge.input)}
    \cup UNION {{a.heart_rate_series[i][1] : i \in 1..Len(a.heart_rate_series)} :
                   a \in {last_merge.activities[k] : k \in 1..Len(last_merge.activities)}}

(* C1 as stated: after the merge, inside every segment range of every      *)
(* activity the reconciled series holds exactly that activity's samples.   *)
C1_PrecedenceEveryActivity ==
    last_merge # NoResult =>
        \A k \in 1..Len(last_merge.activities) : \A t \in MergeTimes :
            Covers(last_merge.activities[k], t) =>
                SamplesAt(last_merge.output, t)
                    = SamplesAt(last_merge.activities[k].heart_rate_series, t)

(* C1 amended: after the merge, inside every segment range of an activity  *)
(* the reconciled series holds exactly the samples of the activity applied *)
(* last among those whose segment ranges contain the timestamp (that       *)
(* activity's own unless a later-applied one overlaps it there), and no    *)
(* sample of the daily source remains inside any segment range.            *)
C1_PrecedenceLastApplied ==
    last_merge # NoResult =>
        \A t \in MergeTimes :
            Covered(last_merge.activities, t) =>
                /\ SamplesAt(last_merge.output, t)
                     = SamplesAt(last_merge.activities[
                           LastCovering(last_merge.activities, t)].heart_rate_series, t)
                /\ \A p \in SamplesAt(last_merge.output, t) : p[3] # DailySource

(* A merge that replaced a daily sample by an activity's and was followed  *)
(* by an overlapping, later-applied activity                               *)
C1_Witness ==
    /\ last_merge # NoResult
    /\ Len(last_merge.activities) = 2
    /\ \E t \in MergeTimes :
          /\ Covers(last_merge.activities[1], t)
          /\ Covers(last_merge.activities[2], t)
          /\ SamplesAt(last_merge.input, t) # {}
          /\ SamplesAt(last_merge.activities[1].heart_rate_series, t) # {}
          /\ SamplesAt(last_merge.output, t) # {}
    /\ \E t \in MergeTimes :
          /\ Covers(last_merge.activities[1], t)
          /\ ~Covers(last_merge.activities[2], t)
          /\ SamplesAt(last_merge.input, t) # {}
          /\ \A p \in SamplesAt(last_merge.input, t) : p[3] = DailySource

(* C4: a second run of the job with the same upstream inputs leaves the    *)
(* same stored heart_rate_series, total_trimp and trimp_data as the first. *)
C4_SecondRunSameResult ==
    Len(history) >= 2 => history[2].daily_data = history[1].daily_data

(* C5: every sample the merge read from the daily series whose timestamp   *)
(* is outside every activity segment range is in the reconciled series     *)
(* exactly once, unchanged; daily samples inside a range (boundaries       *)
(* included) are gone.                                                     *)
C5_DailyPreservedOutside ==
    last_merge # NoResult =>
        /\ \A i \in 1..Len(last_merge.input) :
              LET d == last_merge.input[i] IN
              ~Covered(last_merge.activities, d[1]) =>
                  /\ Occurrences(last_merge.output, d[1], d[2]) = 1
                  /\ SamplesAt(last_merge.output, d[1]) = {d}
        /\ \A i \in 1..Len(last_merge.output) :
              LET p == last_merge.output[i] IN
              p[3] = DailySource => ~Covered(last_merge.activities, p[1])

(* A merge that kept a daily sample lying in the gap between two segments  *)
(* of one activity and removed daily samples at both ends of a segment     *)
C5_Witness ==
    /\ last_merge # NoResult
    /\ \E k \in 1..Len(last_merge.activities) :
          LET a == last_merge.activities[k]
              ranges == SegmentRanges(a.heart_rate_series)
          IN /\ Cardinality(ranges) = 2
             /\ \E i \in 1..Len(last_merge.output) :
                   LET p == last_merge.output[i] IN
                   /\ p[3] = DailySource
                   /\ \A r \in ranges : ~InRange(p[1], r)
                   /\ \E r1 \in ranges, r2 \in ranges : r1[2] < p[1] /\ p[1] < r2[1]
             /\ \E r \in ranges :
                   /\ r[1] < r[2]
                   /\ SamplesAt(last_merge.input, r[1]) # {}
                   /\ SamplesAt(last_merge.input, r[2]) # {}

----------------------------------------------------------------------------
(* Heart-rate parameters supplied by a caller *)

MaxParamLen == 2                             \* longest series handed to it

(* (resting_hr, max_hr) pairs a caller may send: valid ones, ones with a   *)
(* zero reserve and ones with a negative reserve                           *)
ParamRequests == {<<r, m>> : r \in {48, 100, 167}, m \in {48, 167}}

(* bucket_heart_rates divides by self.hr_reserve for a reading at or above *)
(* 80 and above resting_hr                                                 *)
RaisesZeroDivision(s, params) ==
    /\ params[2] - params[1] = 0
    /\ \E i \in 1..Len(s) : s[i][2] # None /\ s[i][2] >= 80 /\ s[i][2] > params[1]

(* init_db leaves the row (48, 167) in hr_parameters *)
InitParams ==
    /\ hr_series \in SeriesUpTo(MaxParamLen, {30 * 1000}, TrimpHRs)
    /\ hr_params = <<48, 167>>
    /\ trimp_out = NoResult
    /\ bucket_out = NoResult
    /\ gap_base = NoResult
    /\ segments_out = NoResult
    /\ ZoneIdle
    /\ JobIdle
    /\ ParamIdle
    /\ CacheIdle
    /\ TypeIdle
    /\ DetectIdle
    /\ ThreadIdle

(* POST /api/hr-parameters as admin: ensure_user_hr_parameters runs its    *)
(* INSERT OR REPLACE and closes the connection without a commit, so the    *)
(* stored row stays; the answer reports success.                           *)
HrParametersPost ==
    /\ hr_response = NoResult
    /\ \E req \in ParamRequests :
          /\ hr_request' = req
          /\ hr_response' = [success |-> TRUE, resting_hr |-> req[1], max_hr |-> req[2]]
    /\ UNCHANGED <<calculator, pureVars, zoneVars, jobVars, cacheVars, typeVars, detectVars, threadVars>>

(* TRIMPCalculator(resting_hr, max_hr) *)
TRIMPCalculatorInit ==
    /\ calculator = NoResult
    /\ \E req \in ParamRequests :
          calculator' = [resting_hr |-> req[1], max_hr |-> req[2],
                         hr_reserve |-> req[2] - req[1]]
    /\ UNCHANGED <<hr_request, hr_response, pureVars, zoneVars, jobVars, cacheVars, typeVars, detectVars, threadVars>>

(* calculator.bucket_heart_rates({'heartRateValues': hr_series}) *)
CalculatorBucketHeartRates ==
    /\ calculator # NoResult
    /\ bucket_out = NoResult
    /\ LET params == <<calculator.resting_hr, calculator.max_hr>> IN
       bucket_out' = IF RaisesZeroDivision(hr_series, params)
                     THEN [error |-> "ZeroDivisionError"]
                     ELSE bucket_heart_rates(hr_series, params)
    /\ UNCHANGED <<hr_series, hr_params, trimp_out, gap_base, segments_out>>
    /\ UNCHANGED <<paramVars, zoneVars, jobVars, cacheVars, typeVars, detectVars, threadVars>>

NextParams == HrParametersPost \/ TRIMPCalculatorInit \/ CalculatorBucketHeartRates

SpecParams == InitParams /\ [][NextParams]_vars

(* C11: heart-rate parameters with resting_hr >= max_hr are rejected       *)
(* explicitly: the request that sends them is not answered with success,   *)
(* no calculator is ever constructed with them, and no TRIMP computation   *)
(* is started (to return a result or to fail half-way) with them.          *)
C11_InvalidParamsRejected ==
    /\ (hr_response # NoResult /\ hr_request[1] >= hr_request[2]) =>
          ~hr_response.success
    /\ calculator # NoResult => calculator.resting_hr < calculator.max_hr
    /\ (calculator # NoResult /\ bucket_out # NoResult) =>
          calculator.hr_reserve > 0
    /\ hr_params[1] < hr_params[2]

----------------------------------------------------------------------------
(* The TRIMP cache columns and the operations on them *)

MaxCacheActs == 2                            \* activities of the date

(* The content hash of a series: an order-sensitive digest of its          *)
(* (timestamp, heart rate) pairs.  No function of the program computes     *)
(* one; the callers of save_cached_trimp_data are to supply it.            *)
RECURSIVE ContentHashFrom(_, _, _)
ContentHashFrom(series, i, h) ==
    IF i > Len(series) THEN h
    ELSE ContentHashFrom(series, i + 1,
                         (h * 31 + (series[i][1] \div 1000) * 7 + series[i][2]) % 65521)

ContentHash(series) == ContentHashFrom(series, 1, Len(series) + 1)

(* The TRIMP result stored with a row *)
RowResult(row) == [trimp_data |-> row.trimp_data, total_trimp |-> row.total_trimp]

(* The activity_data row with the given id, as a set (empty when missing) *)
ActivityById(id) == {a \in activity_data : a.activity_id = id}

(* The daily answers and activity lists of the cache runs: no or all       *)
(* daily samples, activities without samples, with one sample inside the   *)
(* range of another, with one segment and with two.                        *)
CacheDailySlots == {{}, Slots}
CacheActSlots == {{}, {2}, {1, 3}, {3, 4}}

CacheActivityLists(n) ==
    {[k \in 1..n |->
         [activityId     |-> k,
          startTimeLocal |-> n + 1 - k,
          hr_series      |-> ActSeries(k, f[k])]] :
       f \in [1..n -> CacheActSlots]}

(* The keys the cache functions are called with: the date, and the ids an  *)
(* activity of the date may have                                           *)
CacheKeys == {<<"daily", 0>>} \cup {<<"activity", id>> : id \in 1..MaxCacheActs}

InitCache ==
    /\ api_daily \in {[kind |-> "values", heartRateValues |-> DailySeries(S)] :
                         S \in CacheDailySlots}
    /\ api_activities \in
          {[kind |-> "list", activities |-> acts] :
              acts \in UNION {CacheActivityLists(n) : n \in 0..MaxCacheActs}}
    /\ hr_params = <<48, 167>>
    /\ daily_data = NoRow
    /\ activity_data = {}
    /\ job_status = "pending"
    /\ last_merge = NoResult
    /\ history = <<>>
    /\ hr_series = <<>>
    /\ trimp_out = NoResult
    /\ bucket_out = NoResult
    /\ gap_base = NoResult
    /\ segments_out = NoResult
    /\ ZoneIdle
    /\ OtherIdle

(* The row a key names, as a set (empty when there is none) *)
RowOfKey(key) ==
    IF key[1] = "daily"
    THEN (IF daily_data # NoRow THEN {daily_data} ELSE {})
    ELSE ActivityById(key[2])

(* The cache columns of the row a key names *)
EntryOfKey(key) ==
    IF key[1] = "daily" THEN daily_cache ELSE activity_cache[key[2]]

(* An empty result dict, {} *)
EmptyResult == [dict |-> "{}"]

(* The result of a series without intervals *)
ZeroResult ==
    [trimp_data |-> [presentation_buckets |-> EmptyZones, total_trimp |-> 0],
     total_trimp |-> 0]

(* What a caller hands to save_cached_trimp_data for a key: the stored     *)
(* result of the row with the content hash of its series, or an empty      *)
(* result; for a key without a row, the result of an empty series.  The    *)
(* results are of the shape json.loads returns, so that json.dumps and     *)
(* json.loads give them back as they are.                                  *)
SaveArguments(key) ==
    IF RowOfKey(key) = {}
    THEN {[trimp_data |-> ZeroResult, data_hash |-> ContentHash(<<>>)]}
    ELSE UNION {{[trimp_data |-> RowResult(row),
                  data_hash  |-> ContentHash(row.heart_rate_series)],
                 [trimp_data |-> EmptyResult,
                  data_hash  |-> ContentHash(row.heart_rate_series)]} :
                    row \in RowOfKey(key)}

(* The UPDATE of save_cached_trimp_data on the columns of one row;         *)
(* json.dumps(trimp_data) if trimp_data else None                          *)
SavedEntry(trimp_data, data_hash) ==
    [cached_trimp_data      |-> IF trimp_data = EmptyResult THEN Null ELSE trimp_data,
     trimp_calculation_hash |-> data_hash]

(* The cache columns after an UPDATE ... WHERE key that sets them to       *)
(* entry: nothing changes when no row has the key.                         *)
UpdateCacheColumns(key, entry) ==
    IF RowOfKey(key) = {}
    THEN UNCHANGED <<daily_cache, activity_cache>>
    ELSE IF key[1] = "daily"
    THEN daily_cache' = entry /\ UNCHANGED activity_cache
    ELSE activity_cache' = [activity_cache EXCEPT ![key[2]] = entry]
         /\ UNCHANGED daily_cache

(* save_cached_trimp_data(key, trimp_data, data_hash, data_type); the call *)
(* is noted with whether a row had the key and how many runs of the job    *)
(* had ended.                                                              *)
SaveCachedTrimpData ==
    /\ \E key \in CacheKeys : \E args \in SaveArguments(key) :
          /\ UpdateCacheColumns(key, SavedEntry(args.trimp_data, args.data_hash))
          /\ cache_calls' = [call |-> "save", key |-> key,
                             trimp_data |-> args.trimp_data,
                             data_hash |-> args.data_hash,
                             row_found |-> RowOfKey(key) # {},
                             runs |-> Len(history)]
    /\ cache_read' = NoResult
    /\ UNCHANGED <<recalc_out, pureVars, zoneVars, jobVars, paramVars, typeVars, detectVars, threadVars>>

(* invalidate_cached_trimp_data(key, data_type) *)
InvalidateCachedTrimpData ==
    /\ \E key \in CacheKeys :
          /\ UpdateCacheColumns(key, NullCache)
          /\ cache_calls' = [call |-> "invalidate", key |-> key,
                             row_found |-> RowOfKey(key) # {},
                             runs |-> Len(history)]
    /\ cache_read' = NoResult
    /\ UNCHANGED <<recalc_out, pureVars, zoneVars, jobVars, paramVars, typeVars, detectVars, threadVars>>

(* What get_cached_trimp_data returns from the columns of the row found *)
CachedAnswer(entry) ==
    IF entry.cached_trimp_data # Null
    THEN [trimp_data |-> entry.cached_trimp_data,
          hash       |-> entry.trimp_calculation_hash]
    ELSE [answer |-> None]

(* get_cached_trimp_data(key, data_type); when the last save or invalidate *)
(* call was made for the same key, it is noted with the answer.            *)
GetCachedTrimpData ==
    /\ \E key \in CacheKeys :
          cache_read' = [data_type |-> key[1], key |-> key[2],
                         answer    |-> IF RowOfKey(key) # {}
                                       THEN CachedAnswer(EntryOfKey(key))
                                       ELSE [answer |-> None],
                         last_call |-> IF cache_calls # NoResult /\ cache_calls.key = key
                                       THEN cache_calls ELSE NoResult]
    /\ UNCHANGED <<daily_cache, activity_cache, recalc_out, cache_calls,
                   pureVars, zoneVars, jobVars, paramVars, typeVars, detectVars, threadVars>>

(* recalculate_activity_trimp(activity_id, override) as the CSV upload and *)
(* clear endpoints call it: it returns when the activity is not stored,    *)
(* and otherwise fails at "from jobs import                                *)
(* calculate_trimp_from_timeseries", a name jobs.py does not define,       *)
(* before any UPDATE; the endpoint answers 500.                            *)
RecalculateActivityTrimp ==
    /\ \E id \in 1..MaxCacheActs :
          recalc_out' = [activity_id |-> id,
                         outcome     |-> IF ActivityById(id) = {} THEN "not_found"
                                         ELSE "ImportError"]
    /\ UNCHANGED <<daily_cache, activity_cache, cache_read, cache_calls,
                   pureVars, zoneVars, jobVars, paramVars, typeVars, detectVars, threadVars>>

NextCache ==
    \/ CollectGarminDataJob
    \/ SaveCachedTrimpData
    \/ InvalidateCachedTrimpData
    \/ GetCachedTrimpData
    \/ RecalculateActivityTrimp

SpecCache == InitCache /\ [][NextCache]_vars

(* The entry a cache that follows the series would hold for a row *)
FreshEntry(row) == SavedEntry(RowResult(row), ContentHash(row.heart_rate_series))

----------------------------------------------------------------------------
(* Properties of the job when the daily source has no samples *)

(* The daily source supplied no samples: no answer, an answer without      *)
(* heartRateValues, or an empty list                                       *)
NoDailySamples ==
    \/ api_daily.kind \in {"no_response", "no_values_key"}
    \/ api_daily.kind = "values" /\ api_daily.heartRateValues = <<>>

(* All samples the activities of the date yield *)
AllActivitySamples ==
    IF api_activities.kind # "list" THEN {}
    ELSE UNION {{api_activities.activities[k].hr_series[i] :
                    i \in 1..Len(api_activities.activities[k].hr_series)} :
                k \in 1..Len(api_activities.activities)}

SamplesOf(series) == {series[i] : i \in 1..Len(series)}

AscendingByTs(series) ==
    \A i \in 1..(Len(series) - 1) : series[i][1] <= series[i + 1][1]

(* C14: when the daily source supplied no samples and some activity of the *)
(* date yields samples, every run of the job stores the activities and     *)
(* leaves as the date's series all activity samples, each once, ascending  *)
(* by timestamp.                                                           *)
C14_ConstructFromActivities ==
    (NoDailySamples /\ AllActivitySamples # {}) =>
        /\ \A i \in 1..Len(history) :
              LET row == history[i].daily_data IN
              /\ row # NoRow
              /\ SamplesOf(row.heart_rate_series) = AllActivitySamples
              /\ Len(row.heart_rate_series) = Cardinality(AllActivitySamples)
              /\ AscendingByTs(row.heart_rate_series)
        /\ Len(history) >= 1 =>
              {a.activity_id : a \in activity_data}
                  = {api_activities.activities[k].activityId :
                        k \in 1..Len(api_activities.activities)}

----------------------------------------------------------------------------
(* Activities whose HR or timestamp column was not detected *)

(* Some activity of the date yields no series *)
SomeUndetected ==
    /\ api_activities.kind = "list"
    /\ \E k \in 1..Len(api_activities.activities) :
          api_activities.activities[k].hr_series = <<>>

(* C15: when the daily source answers with samples or an empty list and    *)
(* some activity of the date has undetected columns, every run ends        *)
(* 'completed', every activity of the date is stored (the undetected one   *)
(* with an empty series), and the merge still holds every sample of every  *)
(* other activity that no later-applied activity's segment range covers.   *)
C15_UndetectedNonFatal ==
    (api_daily.kind = "values" /\ SomeUndetected /\ Len(history) >= 1) =>
        /\ \A i \in 1..Len(history) : history[i].status = "completed"
        /\ \A k \in 1..Len(api_activities.activities) :
              LET a == api_activities.activities[k] IN
              \E r \in activity_data :
                  /\ r.activity_id = a.activityId
                  /\ r.heart_rate_series = a.hr_series
        /\ last_merge # NoResult =>
              \A k \in 1..Len(last_merge.activities) :
                  \A p \in SamplesOf(last_merge.activities[k].heart_rate_series) :
                      (\A j \in (k + 1)..Len(last_merge.activities) :
                            ~Covers(last_merge.activities[j], p[1]))
                          => p \in SamplesOf(last_merge.output)

(* A run that merged an activity with samples applied after one with       *)
(* undetected columns, over a daily series, and ended 'completed'          *)
C15_Witness ==
    /\ api_daily.kind = "values"
    /\ SomeUndetected
    /\ job_status = "completed"
    /\ last_merge # NoResult
    /\ Len(last_merge.activities) = 2
    /\ last_merge.activities[1].heart_rate_series = <<>>
    /\ last_merge.activities[2].heart_rate_series # <<>>
    /\ last_merge.input # <<>>
    /\ \E p \in SamplesOf(last_merge.activities[2].heart_rate_series) :
          /\ p \in SamplesOf(last_merge.output)
          /\ SamplesAt(last_merge.input, p[1]) # {}

----------------------------------------------------------------------------
(* Gap handling of bucket_heart_rates as its test states it *)

(* Sum of the minutes of the fixed zone buckets ZoneNames[i..] of zones *)
RECURSIVE SumZoneMinutes(_, _)
SumZoneMinutes(zones, i) ==
    IF i > Len(ZoneNames) THEN 0
    ELSE (IF ZoneNames[i] \in DOMAIN zones THEN zones[ZoneNames[i]].minutes ELSE 0)
         + SumZoneMinutes(zones, i + 1)

(* The gap in front of reading i, 0 for the first reading *)
GapBefore(s, i) == IF i = 1 THEN 0 ELSE s[i][1] - s[i - 1][1]

(* Readings at or above 80 that the test says are counted (first reading,  *)
(* or a gap below 300 s) and that it allows to be counted (a gap of        *)
(* exactly 300 s, on which it is silent)                                   *)
CountedReadings(s) ==
    {i \in 1..Len(s) : s[i][2] # None /\ s[i][2] >= 80 /\ GapBefore(s, i) < 300 * 1000}

AllowedReadings(s) ==
    {i \in 1..Len(s) : s[i][2] # None /\ s[i][2] >= 80 /\ GapBefore(s, i) <= 300 * 1000}

RECURSIVE SumTrimpOf(_, _, _)
SumTrimpOf(s, idx, params) ==
    IF idx = {} THEN 0
    ELSE LET i == CHOOSE j \in idx : TRUE
         IN calculate_trimp_for_hr(s[i][2], MsPerMinute, params)
            + SumTrimpOf(s, idx \ {i}, params)

(* C16: bucket_heart_rates counts one minute and the TRIMP of one minute   *)
(* for the first reading and for every reading after a gap below 300 s,    *)
(* and nothing for a reading after a gap above 300 s.                      *)
C16_GapReadingsSkipped ==
    bucket_out # NoResult =>
        LET minutes == SumZoneMinutes(bucket_out.presentation_buckets, 1) IN
        /\ Cardinality(CountedReadings(hr_series)) * MsPerMinute <= minutes
        /\ minutes <= Cardinality(AllowedReadings(hr_series)) * MsPerMinute
        /\ SumTrimpOf(hr_series, CountedReadings(hr_series), hr_params)
              <= bucket_out.total_trimp
        /\ bucket_out.total_trimp
              <= SumTrimpOf(hr_series, AllowedReadings(hr_series), hr_params)

----------------------------------------------------------------------------
(* The job on series that hold malformed samples *)

MaxMalSlots == 3                             \* instants that may hold a sample

DailyShapes == {"absent", "good", "null_hr", "null_ts", "none"}
MetricShapes == {"absent", "good", "null_hr", "null_ts"}

(* The entry of the given shape at slot i with heart rate hr from source   *)
ShapedSample(shape, i, hr, source) ==
    IF shape = "good" THEN <<SlotTs(i), hr, source>>
    ELSE IF shape = "null_hr" THEN <<SlotTs(i), None, source>>
    ELSE IF shape = "null_ts" THEN <<None, hr, source>>
    ELSE NoneElement

(* The entries for slots i..n of the shapes f gives them, absent left out *)
RECURSIVE ShapedDaily(_, _, _)
ShapedDaily(f, i, n) ==
    IF i > n THEN <<>>
    ELSE (IF f[i] = "absent" THEN <<>>
          ELSE <<ShapedSample(f[i], i, DailyHr(i), DailySource)>>)
         \o ShapedDaily(f, i + 1, n)

RECURSIVE ShapedMetrics(_, _, _, _)
ShapedMetrics(f, id, i, n) ==
    IF i > n THEN <<>>
    ELSE (IF f[i] = "absent" THEN <<>>
          ELSE <<ShapedSample(f[i], i, ActHr(id, i), id)>>)
         \o ShapedMetrics(f, id, i + 1, n)

(* The extraction loop of collect_activities_for_date over the rows of the *)
(* detail metrics at the detected positions: a row is taken when both its  *)
(* timestamp and its heart rate are not None.                              *)
ExtractHrSeries(metrics) ==
    SelectSeq(metrics, LAMBDA m : m[1] # None /\ m[2] # None)

(* No or one activity, with the rows of its metrics and the series the     *)
(* extraction yields from them                                             *)
MalformedActivityLists ==
    {<<>>} \cup
    {<<[activityId     |-> 1,
        startTimeLocal |-> 1,
        metrics        |-> ShapedMetrics(f, 1, 1, MaxMalSlots),
        hr_series      |-> ExtractHrSeries(ShapedMetrics(f, 1, 1, MaxMalSlots))]>> :
       f \in [1..MaxMalSlots -> MetricShapes]}

InitMalformed ==
    /\ api_daily \in {[kind |-> "values",
                       heartRateValues |-> ShapedDaily(f, 1, MaxMalSlots)] :
                         f \in [1..MaxMalSlots -> DailyShapes]}
    /\ api_activities \in {[kind |-> "list", activities |-> acts] :
                              acts \in MalformedActivityLists}
    /\ hr_params = <<48, 167>>
    /\ daily_data = NoRow
    /\ activity_data = {}
    /\ job_status = "pending"
    /\ last_merge = NoResult
    /\ history = <<>>
    /\ hr_series = <<>>
    /\ trimp_out = NoResult
    /\ bucket_out = NoResult
    /\ gap_base = NoResult
    /\ segments_out = NoResult
    /\ ZoneIdle
    /\ OtherIdle

NextMalformed == CollectGarminDataJob

SpecMalformed == InitMalformed /\ [][NextMalformed]_vars

WellFormed(sample) == sample[1] # None /\ sample[2] # None

(* The well-formed entries of a series, in order *)
WellFormedOf(series) == SelectSeq(series, WellFormed)

(* t lies inside a segment range of the well-formed rows of some activity *)
CoveredByMetrics(t) ==
    \E k \in 1..Len(api_activities.activities) :
        \E range \in SegmentRanges(WellFormedOf(api_activities.activities[k].metrics)) :
            InRange(t, range)

(* C17: a sample with a null timestamp or heart rate costs only itself:    *)
(* every run ends 'completed'; every activity is stored with exactly its   *)
(* well-formed samples; and whenever the daily or an activity series holds *)
(* a well-formed sample the date has a row whose series holds every        *)
(* well-formed activity sample and every well-formed daily sample outside  *)
(* the activity segment ranges.                                            *)
C17_MalformedDroppedIndividually ==
    \A i \in 1..Len(history) :
        LET row   == history[i].daily_data
            daily == WellFormedOf(api_daily.heartRateValues)
            acts  == api_activities.activities
        IN
        /\ history[i].status = "completed"
        /\ \A k \in 1..Len(acts) :
              \E r \in activity_data :
                  /\ r.activity_id = acts[k].activityId
                  /\ r.heart_rate_series = WellFormedOf(acts[k].metrics)
        /\ (daily # <<>> \/ \E k \in 1..Len(acts) : WellFormedOf(acts[k].metrics) # <<>>) =>
              /\ row # NoRow
              /\ \A k \in 1..Len(acts) :
                    SamplesOf(WellFormedOf(acts[k].metrics))
                        \subseteq SamplesOf(row.heart_rate_series)
              /\ \A j \in 1..Len(daily) :
                    ~CoveredByMetrics(daily[j][1]) =>
                        daily[j] \in SamplesOf(row.heart_rate_series)

----------------------------------------------------------------------------
(* Activity classification from the presentation buckets *)

MaxBucketTrimp == 1                          \* largest trimp held by a bucket

(* HeartRateAnalyzer._determine_activity_type *)
determine_activity_type_nonstrict(buckets) ==
    LET low_intensity_trimp  == buckets["80-89"].trimp + buckets["90-99"].trimp
                                + buckets["100-109"].trimp + buckets["110-119"].trimp
        high_intensity_trimp == buckets["130-139"].trimp + buckets["140-149"].trimp
                                + buckets["150-159"].trimp + buckets["160+"].trimp
    IN IF low_intensity_trimp >= high_intensity_trimp * 2 THEN "long_low_intensity"
       ELSE IF high_intensity_trimp >= low_intensity_trimp * 2 THEN "short_high_intensity"
       ELSE "mixed"
determine_activity_type(buckets) ==
    LET low_intensity_trimp  == buckets["80-89"].trimp + buckets["90-99"].trimp
                                + buckets["100-109"].trimp + buckets["110-119"].trimp
        high_intensity_trimp == buckets["130-139"].trimp + buckets["140-149"].trimp
                                + buckets["150-159"].trimp + buckets["160+"].trimp
    IN IF low_intensity_trimp > high_intensity_trimp * 2 THEN "long_low_intensity"
       ELSE IF high_intensity_trimp > low_intensity_trimp * 2 THEN "short_high_intensity"
       ELSE "mixed"

(* The presentation buckets of an analysis: one entry per fixed zone *)
InitType ==
    /\ type_in \in {[z \in ZoneSet |-> [minutes |-> t[z], trimp |-> t[z]]] :
                       t \in [ZoneSet -> 0..MaxBucketTrimp]}
    /\ type_out = NoResult
    /\ PureIdle
    /\ ZoneIdle
    /\ JobIdle
    /\ ParamIdle
    /\ CacheIdle
    /\ DetectIdle
    /\ ThreadIdle

(* activity_type = self._determine_activity_type(presentation_buckets) *)
DetermineActivityType ==
    /\ type_out = NoResult
    /\ type_out' = [activity_type |-> determine_activity_type(type_in)]
    /\ UNCHANGED <<type_in, pureVars, zoneVars, jobVars, paramVars, cacheVars,
                   detectVars, threadVars>>

NextType == DetermineActivityType

SpecType == InitType /\ [][NextType]_vars

(* Sum of the trimp of the buckets of the given index range of ZoneNames *)
RECURSIVE SumTrimpBetween(_, _, _)
SumTrimpBetween(buckets, i, j) ==
    IF i > j THEN 0 ELSE buckets[ZoneNames[i]].trimp + SumTrimpBetween(buckets, i + 1, j)

(* Buckets below 120 bpm are ZoneNames[1..4], from 130 bpm ZoneNames[6..9] *)
LowTrimp(buckets) == SumTrimpBetween(buckets, 1, 4)
HighTrimp(buckets) == SumTrimpBetween(buckets, 6, 9)

(* C18: the label is 'long_low_intensity' iff low > 2*high, else           *)
(* 'short_high_intensity' iff high > 2*low, else 'mixed'; the two strict   *)
(* conditions exclude each other, all-zero buckets give 'mixed' and mass   *)
(* only below 120 gives 'long_low_intensity'.                              *)
C18_ActivityClassification ==
    type_out # NoResult =>
        LET low   == LowTrimp(type_in)
            high  == HighTrimp(type_in)
            label == type_out.activity_type
        IN /\ (label = "long_low_intensity") <=> (low > 2 * high)
           /\ (label = "short_high_intensity") <=> (~(low > 2 * high) /\ high > 2 * low)
           /\ (label = "mixed") <=> (~(low > 2 * high) /\ ~(high > 2 * low))
           /\ ~(low > 2 * high /\ high > 2 * low)
           /\ (low = 0 /\ high = 0) => label = "mixed"
           /\ (low > 0 /\ high = 0) => label = "long_low_intensity"

(* Classified buckets with mass on both sides where the low side is        *)
(* exactly twice the high side and the 120-129 bucket holds mass           *)
C18_Witness ==
    /\ type_out # NoResult
    /\ HighTrimp(type_in) > 0
    /\ LowTrimp(type_in) = 2 * HighTrimp(type_in)
    /\ type_in["120-129"].trimp > 0
    /\ type_out.activity_type = "mixed"

----------------------------------------------------------------------------
(* The job when neither source has samples *)

(* C19: when the daily source supplied no samples and the activity source  *)
(* answered with activities none of which yields samples (or with none),   *)
(* every run ends 'completed', the status is never 'failed', and the date  *)
(* gets no daily_data row and no stored heart-rate sample.                 *)
C19_NoDataIsNotAnError ==
    (NoDailySamples /\ api_activities.kind = "list" /\ AllActivitySamples = {}) =>
        /\ job_status # "failed"
        /\ daily_data = NoRow
        /\ \A a \in activity_data : a.heart_rate_series = <<>>
        /\ \A i \in 1..Len(history) :
              /\ history[i].status = "completed"
              /\ history[i].daily_data = NoRow

(* Two runs over an empty daily list and an activity without samples *)
C19_Witness ==
    /\ api_daily.kind = "values"
    /\ api_daily.heartRateValues = <<>>
    /\ api_activities.kind = "list"
    /\ Len(api_activities.activities) >= 1
    /\ AllActivitySamples = {}
    /\ Len(history) = 2
    /\ job_status = "completed"
    /\ activity_data # {}
    /\ daily_data = NoRow

----------------------------------------------------------------------------
(* Interval integration against its reference definition *)

(* The positions i whose pair (s[i-1], s[i]) is integrated: all four       *)
(* values present and at most 300 s elapsed                                *)
IntegratedPairs(s) ==
    {i \in 2..Len(s) :
        /\ s[i][1] # None /\ s[i][2] # None
        /\ s[i - 1][1] # None /\ s[i - 1][2] # None
        /\ s[i][1] - s[i - 1][1] <= 300 * 1000}

(* trimp_for_interval(hr, minutes) of the reference: 0 below 80 bpm, else  *)
(* minutes * ratio * 0.64 * exp(1.92 * ratio) with ratio 0 at or below     *)
(* resting_hr                                                              *)
trimp_for_interval(hr, ms, params) ==
    IF hr < 80 THEN 0
    ELSE IF hr <= params[1] THEN 0
    ELSE ms * Weight(Ratio(hr - params[1], params[2] - params[1]))

(* The sum of f[i] over the positions i of idx *)
RECURSIVE SumOverPairs(_, _)
SumOverPairs(f, idx) ==
    IF idx = {} THEN 0
    ELSE LET i == CHOOSE j \in idx : TRUE
         IN f[i] + SumOverPairs(f, idx \ {i})

ReferenceTotal(s, params) ==
    SumOverPairs([i \in IntegratedPairs(s) |->
                     trimp_for_interval(s[i][2], s[i][1] - s[i - 1][1], params)],
                 IntegratedPairs(s))

(* The integrated pairs whose right-endpoint rate the zone bucket z holds *)
PairsOfZone(s, z) ==
    {i \in IntegratedPairs(s) : s[i][2] >= 80 /\ ExpectedZone(s[i][2]) = z}

ReferenceZoneMinutes(s, z) ==
    SumOverPairs([i \in PairsOfZone(s, z) |-> s[i][1] - s[i - 1][1]], PairsOfZone(s, z))

ReferenceZoneTrimp(s, z, params) ==
    SumOverPairs([i \in PairsOfZone(s, z) |->
                     trimp_for_interval(s[i][2], s[i][1] - s[i - 1][1], params)],
                 PairsOfZone(s, z))

ZoneMinutesOf(zones, z) == IF z \in DOMAIN zones THEN zones[z].minutes ELSE 0
ZoneTrimpOf(zones, z) == IF z \in DOMAIN zones THEN zones[z].trimp ELSE 0

(* C20: calculate_trimp returns the reference integration: over the pairs  *)
(* with all four values present and at most 300 s elapsed, the sum of      *)
(* trimp_for_interval(cur.hr, minutes) as total and, per zone bucket, the  *)
(* minutes and trimp of the pairs whose cur.hr the bucket contains; no     *)
(* other bucket holds anything.                                            *)
C20_IntervalIntegration ==
    trimp_out # NoResult =>
        /\ trimp_out.total_trimp = ReferenceTotal(hr_series, hr_params)
        /\ \A z \in ZoneSet :
              /\ ZoneMinutesOf(trimp_out.zones, z) = ReferenceZoneMinutes(hr_series, z)
              /\ ZoneTrimpOf(trimp_out.zones, z)
                    = ReferenceZoneTrimp(hr_series, z, hr_params)
        /\ \A z \in (DOMAIN trimp_out.zones) \ ZoneSet :
              trimp_out.zones[z].minutes = 0 /\ trimp_out.zones[z].trimp = 0

----------------------------------------------------------------------------
(* Overlapping activities *)

(* The activity rows the last merge read *)
MergedActivities == {last_merge.activities[k] : k \in 1..Len(last_merge.activities)}

(* b is applied after a: it comes later in start_time_local *)
AppliedAfter(b, a) == b.start_time_local > a.start_time_local

(* Some activity applied after a has a segment range around t *)
OverwrittenLater(a, t) ==
    \E b \in MergedActivities : AppliedAfter(b, a) /\ Covers(b, t)

(* C21: overlapping activities are applied in start_time_local order: a   *)
(* sample of an activity is gone from the reconciled series when a         *)
(* later-applied activity has a segment range around its timestamp, and    *)
(* is there exactly once otherwise; a daily sample inside any activity's   *)
(* range is gone; whatever remains at a covered timestamp comes from the   *)
(* activity applied last there.                                            *)
C21_OverlapInInputOrder ==
    last_merge # NoResult =>
        /\ \A a \in MergedActivities : \A p \in SamplesOf(a.heart_rate_series) :
              IF OverwrittenLater(a, p[1])
              THEN p \notin SamplesOf(last_merge.output)
              ELSE Cardinality({i \in 1..Len(last_merge.output) :
                                    last_merge.output[i] = p}) = 1
        /\ \A p \in SamplesOf(last_merge.output) :
              \/ /\ p[3] = DailySource
                 /\ p \in SamplesOf(last_merge.input)
                 /\ \A a \in MergedActivities : ~Covers(a, p[1])
              \/ \E a \in MergedActivities :
                    /\ p \in SamplesOf(a.heart_rate_series)
                    /\ ~OverwrittenLater(a, p[1])

(* A merge of two activities whose segment ranges overlap: the earlier has *)
(* a sample inside the later one's range and one outside it, and the daily *)
(* series has a sample inside the overlap.                                 *)
C21_Witness ==
    /\ last_merge # NoResult
    /\ \E a \in MergedActivities, b \in MergedActivities :
          /\ AppliedAfter(b, a)
          /\ \E p \in SamplesOf(a.heart_rate_series) :
                /\ Covers(b, p[1])
                /\ SamplesAt(last_merge.input, p[1]) # {}
                /\ p \notin SamplesOf(last_merge.output)
          /\ \E p \in SamplesOf(a.heart_rate_series) :
                /\ ~Covers(b, p[1])
                /\ p \in SamplesOf(last_merge.output)
          /\ \E p \in SamplesOf(b.heart_rate_series) :
                /\ Covers(a, p[1])
                /\ p \in SamplesOf(last_merge.output)

----------------------------------------------------------------------------
(* The position detectors of jobs.py                                        *)
(*                                                                          *)
(* The detectors read of a column of the metrics matrix only the non-null   *)
(* values' minimum, maximum, number of distinct values and whether all are  *)
(* integral; a column is held as those statistics.  Values are held in      *)
(* hundredths.  A value of the epoch-millisecond range is held as EpochBase *)
(* plus its distance in ms from 10^12: EpochBase is above every other value *)
(* held, so the order of the values, which is all that is read, is kept.    *)

MaxCols == 3                                 \* columns of the metrics matrix

Hundredths == 10 * 10
EpochBase == 1000 * 1000                     \* 1000000000000 ms as held

(* The three-day window around target_date, for a date shortly after 10^12 *)
start_timestamp == EpochBase - 50
end_timestamp == EpochBase + 500

Column(lo, hi, integral, distinct) ==
    [nonempty |-> TRUE, min |-> lo, max |-> hi,
     all_integers |-> integral, unique_count |-> distinct]

(* position_data[pos] when every entry holds None there *)
EmptyColumn ==
    [nonempty |-> FALSE, min |-> 0, max |-> 0, all_integers |-> TRUE, unique_count |-> 0]

ColumnKinds ==
    {EmptyColumn,
     Column(48 * Hundredths, 167 * Hundredths, TRUE, 6),
     Column(48 * Hundredths, 167 * Hundredths, TRUE, 7),
     Column(48 * Hundredths, 167 * Hundredths, TRUE, 5),
     Column(47 * Hundredths, 167 * Hundredths, TRUE, 6),
     Column(48 * Hundredths, 168 * Hundredths, TRUE, 6),
     Column(48 * Hundredths + 50, 167 * Hundredths, FALSE, 6),
     Column(51 * Hundredths + 40, 51 * Hundredths + 50, FALSE, 6),
     Column(EpochBase + 1, EpochBase + 200, TRUE, 101),
     Column(EpochBase + 1, EpochBase + 200, TRUE, 102),
     Column(EpochBase, EpochBase + 200, TRUE, 101),
     Column(EpochBase + 1, EpochBase + 200, TRUE, 100),
     Column(EpochBase + 600, EpochBase + 900, TRUE, 101)}

(* Column positions count from 0 *)
Positions(metrics) == 0..(Len(metrics) - 1)

position_data(metrics, pos) == metrics[pos + 1]

(* min(values) >= 48 and max(values) <= 167, all integers, more than 5     *)
(* distinct values (fallback and inline detection)                         *)
IsHrCandidate(values) ==
    /\ values.nonempty
    /\ values.min >= 48 * Hundredths
    /\ values.max <= 167 * Hundredths
    /\ values.all_integers
    /\ values.unique_count > 5

(* min(values) > 1000000000000 and more than 100 distinct values *)
IsTsCandidate(values) ==
    /\ values.nonempty
    /\ values.min > EpochBase
    /\ values.unique_count > 100

(* The HR test of the advanced detector: the range, not a GPS latitude,    *)
(* more than 5 distinct values                                             *)
IsHrCandidateAdvanced(values) ==
    /\ values.nonempty
    /\ values.min >= 48 * Hundredths
    /\ values.max <= 167 * Hundredths
    /\ ~(values.min >= 51 * Hundredths + 40 /\ values.max <= 51 * Hundredths + 50)
    /\ values.unique_count > 5

(* The timestamp test of the advanced detector: also inside the window *)
IsTsCandidateAdvanced(values) ==
    /\ values.nonempty
    /\ values.min > EpochBase
    /\ start_timestamp <= values.min /\ values.min <= end_timestamp
    /\ start_timestamp <= values.max /\ values.max <= end_timestamp
    /\ values.unique_count > 100

(* candidates.sort(key=lambda x: x[1], reverse=True); candidates[0][0]:    *)
(* the most distinct values, the lowest position among equals              *)
FirstByUniqueCount(metrics, candidates) ==
    CHOOSE p \in candidates :
        \A q \in candidates :
            \/ position_data(metrics, p).unique_count
                  > position_data(metrics, q).unique_count
            \/ /\ position_data(metrics, p).unique_count
                     = position_data(metrics, q).unique_count
               /\ p <= q

(* detect_hr_and_timestamp_positions(activity_metrics) *)
detect_hr_and_timestamp_positions(metrics) ==
    LET hr_candidates == {p \in Positions(metrics) : IsHrCandidate(position_data(metrics, p))}
        ts_candidates == {p \in Positions(metrics) : IsTsCandidate(position_data(metrics, p))}
    IN [hr_position   |-> IF hr_candidates # {}
                          THEN FirstByUniqueCount(metrics, hr_candidates) ELSE None,
        ts_position   |-> IF ts_candidates # {}
                          THEN FirstByUniqueCount(metrics, ts_candidates) ELSE None,
        hr_candidates |-> hr_candidates,
        ts_candidates |-> ts_candidates,
        hr_listed     |-> metrics # <<>>,
        ts_listed     |-> metrics # <<>>]

(* The detection written out in collect_activities_for_date *)
InlineDetection(metrics) ==
    LET hr_candidates == {p \in Positions(metrics) : IsHrCandidate(position_data(metrics, p))}
        ts_candidates == {p \in Positions(metrics) : IsTsCandidate(position_data(metrics, p))}
        found         == hr_candidates # {} /\ ts_candidates # {}
    IN [hr_position   |-> IF found THEN FirstByUniqueCount(metrics, hr_candidates) ELSE None,
        ts_position   |-> IF found THEN FirstByUniqueCount(metrics, ts_candidates) ELSE None,
        hr_candidates |-> hr_candidates,
        ts_candidates |-> ts_candidates,
        hr_listed     |-> metrics # <<>>,
        ts_listed     |-> metrics # <<>>]

(* What calculate_hr_correlation meets for one (ts_pos, hr_pos) pair: the  *)
(* activity points with both values and the rate in 48..167, the points    *)
(* aligned within 30 s, and the Pearson coefficient in hundredths          *)
CorrelationCases ==
    {[activity_points |-> 9,  aligned_points |-> 5, pearson |-> 90],
     [activity_points |-> 10, aligned_points |-> 4, pearson |-> 90],
     [activity_points |-> 10, aligned_points |-> 5, pearson |-> -90],
     [activity_points |-> 10, aligned_points |-> 5, pearson |-> 70],
     [activity_points |-> 10, aligned_points |-> 5, pearson |-> 71]}

(* The daily points inside the activity's time window *)
WindowPoints == {4, 5}

(* calculate_hr_correlation: 0.0 below the minimum numbers of points, else *)
(* abs(correlation)                                                        *)
calculate_hr_correlation(case, daily_hr_window) ==
    IF case.activity_points < 10 THEN 0
    ELSE IF daily_hr_window < 5 THEN 0
    ELSE IF case.aligned_points < 5 THEN 0
    ELSE Abs(case.pearson)

(* The (ts_pos, hr_pos) pairs in the order the two nested loops visit them *)
RECURSIVE PairsInOrder(_)
PairsInOrder(pairs) ==
    IF pairs = {} THEN <<>>
    ELSE LET first == CHOOSE x \in pairs :
                 \A y \in pairs : x[1] < y[1] \/ (x[1] = y[1] /\ x[2] <= y[2])
         IN <<first>> \o PairsInOrder(pairs \ {first})

(* The nested loops from the k-th pair on: a pair replaces the best one    *)
(* only when its correlation is strictly greater                           *)
RECURSIVE BestPair(_, _, _, _)
BestPair(pairs, correlation, k, best) ==
    IF k > Len(pairs) THEN best
    ELSE IF correlation[pairs[k]] > best.best_correlation
    THEN BestPair(pairs, correlation, k + 1,
                  [best_correlation |-> correlation[pairs[k]],
                   best_hr_pos |-> pairs[k][2], best_ts_pos |-> pairs[k][1]])
    ELSE BestPair(pairs, correlation, k + 1, best)

AdvancedTsCandidates(metrics) ==
    {p \in Positions(metrics) : IsTsCandidateAdvanced(position_data(metrics, p))}

AdvancedHrCandidates(metrics) ==
    {p \in Positions(metrics) : IsHrCandidateAdvanced(position_data(metrics, p))}

(* The pairs the advanced detector correlates *)
AdvancedPairs(m) ==
    IF m.columns = <<>> \/ ~m.daily_hr_data THEN {}
    ELSE AdvancedTsCandidates(m.columns) \X AdvancedHrCandidates(m.columns)

(* detect_hr_and_timestamp_positions_advanced, correlation being what      *)
(* calculate_hr_correlation answers for each pair it is asked about        *)
detect_hr_and_timestamp_positions_advanced(m, correlation) ==
    LET undetected == [hr_position |-> None, ts_position |-> None, correlation |-> 0]
        ts_candidates == AdvancedTsCandidates(m.columns)
        hr_candidates == AdvancedHrCandidates(m.columns)
        best == BestPair(PairsInOrder(ts_candidates \X hr_candidates), correlation, 1,
                         [best_correlation |-> 0, best_hr_pos |-> None, best_ts_pos |-> None])
    IN IF m.columns = <<>> \/ ~m.daily_hr_data
       THEN [result |-> undetected, hr_candidates |-> {}, ts_candidates |-> {},
             hr_listed |-> FALSE, ts_listed |-> FALSE, correlations |-> correlation]
       ELSE IF ts_candidates = {}
       THEN [result |-> undetected, hr_candidates |-> {}, ts_candidates |-> {},
             hr_listed |-> FALSE, ts_listed |-> TRUE, correlations |-> correlation]
       ELSE [result |-> IF best.best_correlation > 70
                        THEN [hr_position |-> best.best_hr_pos,
                              ts_position |-> best.best_ts_pos,
                              correlation |-> best.best_correlation]
                        ELSE undetected,
             hr_candidates |-> hr_candidates, ts_candidates |-> ts_candidates,
             hr_listed |-> TRUE, ts_listed |-> TRUE, correlations |-> correlation]

InitDetect ==
    /\ metrics_in \in
          {[columns |-> c, daily_hr_data |-> d] :
              c \in UNION {[1..n -> ColumnKinds] : n \in 0..MaxCols}, d \in BOOLEAN}
    /\ detect_out = [fallback |-> NoResult, inline |-> NoResult, advanced |-> NoResult]
    /\ PureIdle
    /\ ZoneIdle
    /\ JobIdle
    /\ ParamIdle
    /\ CacheIdle
    /\ TypeIdle
    /\ ThreadIdle

(* hr_pos, ts_pos = detect_hr_and_timestamp_positions(activity_metrics) *)
DetectFallback ==
    /\ detect_out.fallback = NoResult
    /\ detect_out' = [detect_out EXCEPT
                         !.fallback = detect_hr_and_timestamp_positions(metrics_in.columns)]
    /\ UNCHANGED <<metrics_in, pureVars, zoneVars, jobVars, paramVars, cacheVars, typeVars,
                   threadVars>>

(* The detection of collect_activities_for_date on the same matrix *)
DetectInline ==
    /\ detect_out.fallback # NoResult
    /\ detect_out.inline = NoResult
    /\ detect_out' = [detect_out EXCEPT !.inline = InlineDetection(metrics_in.columns)]
    /\ UNCHANGED <<metrics_in, pureVars, zoneVars, jobVars, paramVars, cacheVars, typeVars,
                   threadVars>>

(* detect_hr_and_timestamp_positions_advanced on the same matrix *)
DetectAdvanced ==
    /\ detect_out.inline # NoResult
    /\ detect_out.advanced = NoResult
    /\ \E daily_hr_window \in WindowPoints :
       \E cases \in [AdvancedPairs(metrics_in) -> CorrelationCases] :
          detect_out' = [detect_out EXCEPT
              !.advanced = detect_hr_and_timestamp_positions_advanced(
                  metrics_in,
                  [pair \in AdvancedPairs(metrics_in) |->
                      calculate_hr_correlation(cases[pair], daily_hr_window)])]
    /\ UNCHANGED <<metrics_in, pureVars, zoneVars, jobVars, paramVars, cacheVars, typeVars,
                   threadVars>>

NextDetect == DetectFallback \/ DetectInline \/ DetectAdvanced

SpecDetect == InitDetect /\ [][NextDetect]_vars

(* The candidate columns as the specification defines them *)
HRCandidateColumns(metrics) ==
    {p \in Positions(metrics) :
        LET values == position_data(metrics, p) IN
        /\ values.nonempty
        /\ 48 * Hundredths <= values.min /\ values.max <= 167 * Hundredths
        /\ values.all_integers
        /\ values.unique_count > 5}

TimestampCandidateColumns(metrics) ==
    {p \in Positions(metrics) :
        LET values == position_data(metrics, p) IN
        /\ values.nonempty
        /\ values.min > EpochBase
        /\ values.unique_count > 100}

(* The detector's run listed exactly the specified candidates *)
ListsSpecifiedCandidates(run) ==
    /\ run.hr_listed => run.hr_candidates = HRCandidateColumns(metrics_in.columns)
    /\ run.ts_listed => run.ts_candidates = TimestampCandidateColumns(metrics_in.columns)

DistinctPositions(result) ==
    (result.hr_position # None /\ result.ts_position # None)
        => result.hr_position # result.ts_position

(* C22: in each of the three detection paths the HR candidates are exactly *)
(* the columns whose values all lie in [48, 167], are all integral and     *)
(* number more than 5 distinct, the timestamp candidates exactly those     *)
(* whose minimum exceeds 10^12 with more than 100 distinct values, and a   *)
(* detected HR position differs from the detected timestamp position.      *)
C22_CandidateCriteria ==
    /\ detect_out # NoResult =>
          /\ detect_out.fallback # NoResult =>
                /\ ListsSpecifiedCandidates(detect_out.fallback)
                /\ DistinctPositions(detect_out.fallback)
          /\ detect_out.inline # NoResult =>
                /\ ListsSpecifiedCandidates(detect_out.inline)
                /\ DistinctPositions(detect_out.inline)
          /\ detect_out.advanced # NoResult =>
                /\ ListsSpecifiedCandidates(detect_out.advanced)
                /\ DistinctPositions(detect_out.advanced.result)


(* What every detector answers when it detects nothing *)
Undetected == [hr_position |-> None, ts_position |-> None, correlation |-> 0]

(* C23: the advanced detector returns positions only for a pair of a       *)
(* timestamp candidate and an HR candidate whose correlation is the        *)
(* greatest among the pairs correlated and strictly above 0.7; otherwise   *)
(* it returns (None, None, 0.0).                                           *)
C23_CorrelationAcceptance ==
    (detect_out # NoResult /\ detect_out.advanced # NoResult) =>
        LET result       == detect_out.advanced.result
            correlations == detect_out.advanced.correlations
            pair         == <<result.ts_position, result.hr_position>>
        IN IF result.hr_position # None \/ result.ts_position # None
           THEN /\ result.ts_position \in TimestampCandidateColumns(metrics_in.columns)
                /\ result.hr_position \in HRCandidateColumns(metrics_in.columns)
                /\ pair \in DOMAIN correlations
                /\ correlations[pair] = result.correlation
                /\ \A other \in DOMAIN correlations :
                      correlations[other] <= result.correlation
                /\ result.correlation > 70
           ELSE result = Undetected

(* C24: every detector returns both positions or neither. *)
C24_BothOrNeither ==
    detect_out # NoResult =>
        /\ detect_out.fallback # NoResult =>
              (detect_out.fallback.hr_position = None)
                  = (detect_out.fallback.ts_position = None)
        /\ detect_out.inline # NoResult =>
              (detect_out.inline.hr_position = None)
                  = (detect_out.inline.ts_position = None)
        /\ detect_out.advanced # NoResult =>
              (detect_out.advanced.result.hr_position = None)
                  = (detect_out.advanced.result.ts_position = None)

----------------------------------------------------------------------------
(* Properties of the stored daily row *)

(* Ascending by timestamp with no timestamp twice *)
StrictlyAscending(series) ==
    \A i \in 1..(Len(series) - 1) : series[i][1] < series[i + 1][1]

(* C26: the daily and activity series handed in being ascending without    *)
(* duplicate timestamps, the series stored by the merge and by the         *)
(* construction from activities is ascending and holds no timestamp twice. *)
C26_StoredSeriesStrictlyAscending ==
    /\ last_merge # NoResult => StrictlyAscending(last_merge.output)
    /\ \A i \in 1..Len(history) :
          history[i].daily_data # NoRow =>
              StrictlyAscending(history[i].daily_data.heart_rate_series)

(* C27: after a run that ends 'completed' with a daily_data row, the       *)
(* stored total_trimp is the interval integration of the stored series.    *)
C27_StoredTotalMatchesSeries ==
    \A i \in 1..Len(history) :
        (history[i].status = "completed" /\ history[i].daily_data # NoRow) =>
            history[i].daily_data.total_trimp
                = calculate_trimp(history[i].daily_data.heart_rate_series,
                                  hr_params).total_trimp

----------------------------------------------------------------------------
(* The cache functions as a store *)

(* The get that followed the last save or invalidate call was for its key *)
ReadAfterCall == cache_read # NoResult /\ cache_read.last_call # NoResult

(* C29: a get that follows a save for the same key, with no save or        *)
(* invalidate for the key between, returns the saved result and hash; a    *)
(* get that follows an invalidate returns None; and a save or invalidate   *)
(* of one data type leaves the cache columns of the other type as they     *)
(* were.                                                                   *)
C29_CacheRoundTrip ==
    /\ [](ReadAfterCall =>
            IF cache_read.last_call.call = "save"
            THEN cache_read.answer = [trimp_data |-> cache_read.last_call.trimp_data,
                                      hash       |-> cache_read.last_call.data_hash]
            ELSE cache_read.answer = [answer |-> None])
    /\ [][(cache_calls' # cache_calls) =>
             IF cache_calls'.key[1] = "daily"
             THEN activity_cache' = activity_cache
             ELSE daily_cache' = daily_cache]_vars

----------------------------------------------------------------------------
(* Collection jobs as threads on one database.  POST /collect-data creates  *)
(* a job row and starts a daemon thread per date; every thread opens its    *)
(* own connection to garmin_hr.db.  SQLite lets one connection write at a   *)
(* time: the first INSERT, UPDATE or DELETE of a transaction takes the      *)
(* write lock, commit gives it back, and a statement that meets the lock of *)
(* another connection waits up to the connect timeout and then raises       *)
(* "database is locked".                                                    *)

JobIds == {1, 2}
Dates == {1, 2}

(* Activity k of date d; activity ids are unique over all dates *)
JobActivity(d, k, S) ==
    [activityId     |-> 2 * (d - 1) + k,
     startTimeLocal |-> k,
     hr_series      |-> ActSeries(2 * (d - 1) + k, S)]

(* What the Garmin API holds for date d: the daily answers and, when the   *)
(* daily answer lets the job go on, what get_activities_fordate and the    *)
(* details of each activity yield.                                          *)
GarminAnswers(d) ==
    {[daily |-> [kind |-> k], activities |-> [kind |-> "list", activities |-> <<>>]] :
        k \in {"no_credentials", "api_error", "no_response"}}
    \cup
    {[daily |-> [kind |-> "values", heartRateValues |-> DailySeries(S)],
      activities |-> a] :
        S \in {{}, {1, 3}},
        a \in {[kind |-> "error"],
               [kind |-> "list", activities |-> <<>>],
               [kind |-> "list", activities |-> <<JobActivity(d, 1, {2})>>],
               [kind |-> "list", activities |->
                   <<JobActivity(d, 2, {2, 4}), JobActivity(d, 1, {})>>]}}

NotStarted ==
    [pc |-> "not_started", target_date |-> 0, has_daily_hr_data |-> FALSE,
     activity_collection_success |-> TRUE, refused |-> {}]

InitJobs ==
    /\ garmin_api \in {f \in [Dates -> UNION {GarminAnswers(d) : d \in Dates}] :
                          \A d \in Dates : f[d] \in GarminAnswers(d)}
    /\ job_db = [daily_data |-> {}, activity_data |-> {}, background_jobs |-> {}]
    /\ write_lock = 0
    /\ job_threads = [j \in JobIds |-> NotStarted]
    /\ PureIdle
    /\ ZoneIdle
    /\ JobIdle
    /\ ParamIdle
    /\ CacheIdle
    /\ TypeIdle
    /\ DetectIdle

(* SELECT ... FROM daily_data WHERE date = ? *)
DailyRowOf(db, d) ==
    IF \E r \in db.daily_data : r.date = d
    THEN (CHOOSE r \in db.daily_data : r.date = d).row
    ELSE NoRow

(* SELECT ... FROM activity_data WHERE date = ? *)
ActivityRowsOf(db, d) == {r.row : r \in {x \in db.activity_data : x.date = d}}

(* SELECT status FROM background_jobs WHERE job_id = ? *)
StatusOf(db, j) ==
    IF \E r \in db.background_jobs : r.job_id = j
    THEN (CHOOSE r \in db.background_jobs : r.job_id = j).status
    ELSE "none"

(* DELETE FROM daily_data WHERE date = ?, then the INSERT of the new row *)
ReplaceDaily(db, d, row) ==
    [db EXCEPT !.daily_data =
        {r \in @ : r.date # d}
        \cup (IF row = NoRow THEN {} ELSE {[date |-> d, row |-> row]})]

(* DELETE FROM activity_data WHERE date = ?, then one INSERT per activity *)
ReplaceActivities(db, d, rows) ==
    [db EXCEPT !.activity_data =
        {r \in @ : r.date # d} \cup {[date |-> d, row |-> row] : row \in rows}]

(* UPDATE background_jobs SET status = ? WHERE job_id = ? *)
UpdateJobStatus(db, j, status) ==
    [db EXCEPT !.background_jobs =
        {IF r.job_id = j THEN [r EXCEPT !.status = status] ELSE r : r \in @}]

(* The statement of job j meets the write lock of another connection *)
Locked(j) == write_lock \notin {0, j}

AfterActivities(thread) ==
    IF ~thread.has_daily_hr_data /\ thread.activity_collection_success
    THEN "construct" ELSE "status"

(* Whether construct_daily_data_from_activities reaches its INSERT: it    *)
(* returns before when no activity row of the date has HR samples.         *)
ConstructInserts(rows) == \E r \in rows : r.heart_rate_series # <<>>

(* Whether the step job j is about to take writes to the database *)
WritesNext(j) ==
    LET t   == job_threads[j]
        api == garmin_api[t.target_date]
    IN \/ t.pc \in {"start", "status", "handler"}
       \/ /\ t.pc = "heart_rates"
          /\ \/ api.daily.kind \in {"no_credentials", "no_response"}
             \/ /\ api.daily.kind = "values"
                /\ api.daily.heartRateValues # <<>>
       \/ /\ t.pc = "activities"
          /\ api.activities.kind = "list"
          /\ api.activities.activities # <<>>
       \/ /\ t.pc = "construct"
          /\ ConstructInserts(ActivityRowsOf(job_db, t.target_date))

threadFrame == <<pureVars, zoneVars, jobVars, paramVars, cacheVars, typeVars, detectVars>>

(* collect_data: create_background_job inserts the job row as 'pending'    *)
(* and the thread is started.  The first job is for date 1.                 *)
CollectData(j, d) ==
    /\ job_threads[j].pc = "not_started"
    /\ j = 1 => d = 1
    /\ write_lock = 0
    /\ job_db' = [job_db EXCEPT !.background_jobs =
                     @ \cup {[job_id |-> j, target_date |-> d, status |-> "pending"]}]
    /\ job_threads' = [job_threads EXCEPT ![j].pc = "start", ![j].target_date = d]
    /\ UNCHANGED <<garmin_api, write_lock, threadFrame>>

(* UPDATE background_jobs SET status = 'running'; commit *)
SetRunning(j) ==
    /\ job_threads[j].pc = "start"
    /\ write_lock = 0
    /\ job_db' = UpdateJobStatus(job_db, j, "running")
    /\ job_threads' = [job_threads EXCEPT ![j].pc = "heart_rates"]
    /\ UNCHANGED <<garmin_api, write_lock, threadFrame>>

(* Credentials, login, api.get_heart_rates and the store of the daily row  *)
(* (DELETE, INSERT, commit), or the early end of the job                    *)
GetHeartRates(j) ==
    LET t   == job_threads[j]
        d   == t.target_date
        api == garmin_api[d].daily
    IN
    /\ t.pc = "heart_rates"
    /\ WritesNext(j) => write_lock = 0
    /\ IF api.kind = "no_credentials"
       THEN /\ job_db' = UpdateJobStatus(job_db, j, "failed")
            /\ job_threads' = [job_threads EXCEPT ![j].pc = "done"]
       ELSE IF api.kind = "api_error"
       THEN /\ job_db' = job_db
            /\ job_threads' = [job_threads EXCEPT ![j].pc = "handler"]
       ELSE IF \/ api.kind = "no_response"
               \/ \E i \in 1..Len(api.heartRateValues) :
                      IsNoneElement(api.heartRateValues[i])
       THEN /\ job_db' = UpdateJobStatus(job_db, j, "completed")
            /\ job_threads' = [job_threads EXCEPT ![j].pc = "done"]
       ELSE /\ job_db' = ReplaceDaily(job_db, d,
                             StoreDaily(api.heartRateValues, DailyRowOf(job_db, d),
                                        hr_params))
            /\ job_threads' = [job_threads EXCEPT
                                  ![j].pc = "activities",
                                  ![j].has_daily_hr_data = api.heartRateValues # <<>>]
    /\ UNCHANGED <<garmin_api, write_lock, threadFrame>>

(* collect_activities_for_date up to its DELETE, which takes the write     *)
(* lock; the lock is then held while api.get_activity_details is called    *)
(* for every activity.                                                      *)
GetActivities(j) ==
    LET t   == job_threads[j]
        api == garmin_api[t.target_date].activities
    IN
    /\ t.pc = "activities"
    /\ WritesNext(j) => write_lock = 0
    /\ IF api.kind = "error"
       THEN /\ job_threads' = [job_threads EXCEPT
                                  ![j].pc = "status",
                                  ![j].activity_collection_success = FALSE]
            /\ write_lock' = write_lock
       ELSE IF api.activities = <<>>
       THEN /\ job_threads' = [job_threads EXCEPT ![j].pc = AfterActivities(t)]
            /\ write_lock' = write_lock
       ELSE /\ job_threads' = [job_threads EXCEPT ![j].pc = "details"]
            /\ write_lock' = j
    /\ UNCHANGED <<garmin_api, job_db, threadFrame>>

(* The INSERTs of the activity rows, the merge and the commit.  When the   *)
(* merge raises, nothing is committed before the status update of the job. *)
StoreActivities(j) ==
    LET t == job_threads[j]
        d == t.target_date
        c == collect_activities_for_date(garmin_api[d].activities,
                 DailyRowOf(job_db, d), ActivityRowsOf(job_db, d), hr_params)
    IN
    /\ t.pc = "details"
    /\ job_db' = ReplaceActivities(ReplaceDaily(job_db, d, c.daily_data), d,
                                   c.activity_data)
    /\ IF c.ok
       THEN /\ job_threads' = [job_threads EXCEPT ![j].pc = AfterActivities(t)]
            /\ write_lock' = 0
       ELSE /\ job_threads' = [job_threads EXCEPT
                                  ![j].pc = "status",
                                  ![j].activity_collection_success = FALSE]
            /\ write_lock' = write_lock
    /\ UNCHANGED <<garmin_api, threadFrame>>

(* construct_daily_data_from_activities; the caller catches what it raises *)
ConstructDaily(j) ==
    LET t == job_threads[j]
        d == t.target_date
    IN
    /\ t.pc = "construct"
    /\ WritesNext(j) => write_lock = 0
    /\ job_db' = ReplaceDaily(job_db, d,
                     construct_daily_data_from_activities(
                         DailyRowOf(job_db, d), ActivityRowsOf(job_db, d), hr_params))
    /\ job_threads' = [job_threads EXCEPT ![j].pc = "status"]
    /\ UNCHANGED <<garmin_api, write_lock, threadFrame>>

(* The UPDATE of the job row at the end of the job, and its commit *)
SetFinalStatus(j) ==
    LET t == job_threads[j] IN
    /\ t.pc = "status"
    /\ write_lock \in {0, j}
    /\ job_db' = UpdateJobStatus(job_db, j,
                     IF t.activity_collection_success THEN "completed" ELSE "failed")
    /\ job_threads' = [job_threads EXCEPT ![j].pc = "done"]
    /\ write_lock' = 0
    /\ UNCHANGED <<garmin_api, threadFrame>>

(* "except Exception as e": a new connection marks the job 'failed' *)
MarkFailed(j) ==
    /\ job_threads[j].pc = "handler"
    /\ write_lock = 0
    /\ job_db' = UpdateJobStatus(job_db, j, "failed")
    /\ job_threads' = [job_threads EXCEPT ![j].pc = "done"]
    /\ UNCHANGED <<garmin_api, write_lock, threadFrame>>

(* The statement job j is about to execute raises "database is locked":    *)
(* collect_activities_for_date and the construction hand it to their       *)
(* caller, which goes on; elsewhere the handler of the job takes over, and *)
(* the handler itself only logs it.                                         *)
DatabaseIsLocked(j) ==
    LET t == job_threads[j] IN
    /\ t.pc \in {"start", "heart_rates", "activities", "construct", "status", "handler"}
    /\ Locked(j)
    /\ WritesNext(j)
    /\ job_threads' =
          [job_threads EXCEPT
             ![j].refused = @ \cup {t.pc},
             ![j].activity_collection_success = IF t.pc = "activities" THEN FALSE ELSE @,
             ![j].pc = CASE t.pc \in {"activities", "construct"} -> "status"
                         [] t.pc = "handler" -> "done"
                         [] OTHER -> "handler"]
    /\ UNCHANGED <<garmin_api, job_db, write_lock, threadFrame>>

JobStep(j) ==
    \/ SetRunning(j)
    \/ GetHeartRates(j)
    \/ GetActivities(j)
    \/ StoreActivities(j)
    \/ ConstructDaily(j)
    \/ SetFinalStatus(j)
    \/ MarkFailed(j)
    \/ DatabaseIsLocked(j)

NextJobs ==
    \/ \E j \in JobIds, d \in Dates : CollectData(j, d)
    \/ \E j \in JobIds : JobStep(j)

SpecJobs == InitJobs /\ [][NextJobs]_vars

(* The steps of a thread that compute rows, and the states in which one of *)
(* them is enabled: the thread is at such a step and the step needs no     *)
(* write or finds the write lock free (StoreActivities holds it itself).    *)
RowStep(j) == GetHeartRates(j) \/ StoreActivities(j) \/ ConstructDaily(j)

RowStepEnabled(j) ==
    \/ job_threads[j].pc = "details"
    \/ /\ job_threads[j].pc \in {"heart_rates", "construct"}
       /\ WritesNext(j) => write_lock = 0

StatementStep(j) ==
    \/ SetRunning(j)
    \/ GetActivities(j)
    \/ SetFinalStatus(j)
    \/ MarkFailed(j)
    \/ DatabaseIsLocked(j)

(* Every started thread keeps running: weak fairness of the steps of each  *)
(* job.  For the steps that compute rows, WF_vars(RowStep(j)) is written   *)
(* out with RowStepEnabled(j) for ENABLED <<RowStep(j)>>_vars.               *)
SpecJobsFair ==
    /\ SpecJobs
    /\ \A j \in JobIds :
          /\ WF_vars(StatementStep(j))
          /\ ([]<>~RowStepEnabled(j)) \/ ([]<><<RowStep(j)>>_vars)

----------------------------------------------------------------------------
(* Properties of concurrent collection jobs *)

(* The rows and the status one run of collect_garmin_data_job for a date   *)
(* leaves when no other connection writes meanwhile, from the rows it finds *)
RunAlone(api, row, rows, params) ==
    IF api.daily.kind \in {"no_credentials", "api_error"}
    THEN [daily_data |-> row, activity_data |-> rows, status |-> "failed"]
    ELSE IF \/ api.daily.kind = "no_response"
            \/ \E i \in 1..Len(api.daily.heartRateValues) :
                   IsNoneElement(api.daily.heartRateValues[i])
    THEN [daily_data |-> row, activity_data |-> rows, status |-> "completed"]
    ELSE
      LET values == api.daily.heartRateValues
          c == collect_activities_for_date(api.activities,
                   StoreDaily(values, row, params), rows, params)
      IN [daily_data    |-> IF values = <<>> /\ c.ok
                            THEN construct_daily_data_from_activities(
                                     c.daily_data, c.activity_data, params)
                            ELSE c.daily_data,
          activity_data |-> c.activity_data,
          status        |-> IF c.ok THEN "completed" ELSE "failed"]

RunAloneFor(d) == RunAlone(garmin_api[d], NoRow, {}, hr_params)

AllDone == \A j \in JobIds : job_threads[j].pc = "done"

DifferentDates == job_threads[1].target_date # job_threads[2].target_date

StoredFor(d) == [daily_data |-> DailyRowOf(job_db, d),
                 activity_data |-> ActivityRowsOf(job_db, d)]

RowsOf(run) == [daily_data |-> run.daily_data, activity_data |-> run.activity_data]

NoneRefused == \A j \in JobIds : job_threads[j].refused = {}

(* The rows of the dates and the job rows a step of job j leaves alone *)
OthersUntouched(j) ==
    LET d == job_threads'[j].target_date IN
    /\ \A e \in Dates \ {d} : /\ DailyRowOf(job_db', e) = DailyRowOf(job_db, e)
                              /\ ActivityRowsOf(job_db', e) = ActivityRowsOf(job_db, e)
    /\ \A k \in JobIds \ {j} : StatusOf(job_db', k) = StatusOf(job_db, k)

(* C25: when the jobs of two different dates run concurrently, a step of   *)
(* the job for one date never modifies the daily_data row, the             *)
(* activity_data rows or the job row of the other date, and when both jobs *)
(* have ended the rows stored for each date are those its job leaves when  *)
(* it runs alone.                                                           *)
C25_DatesIndependent ==
    /\ [][\A j \in JobIds :
             job_threads'[j] # job_threads[j] => OthersUntouched(j)]_vars
    /\ [](AllDone /\ DifferentDates =>
             \A j \in JobIds :
                StoredFor(job_threads[j].target_date)
                    = RowsOf(RunAloneFor(job_threads[j].target_date)))
SameDate == job_threads[1].target_date = job_threads[2].target_date

(* What two runs for date d leave when one runs after the other has ended *)
RunTwiceFor(d) ==
    LET first == RunAloneFor(d)
    IN RunAlone(garmin_api[d], first.daily_data, first.activity_data, hr_params)

(* C30: when two jobs for the same date have run with their statements     *)
(* interleaved, a job has ended 'failed' only if its run alone ends        *)
(* 'failed', and the rows stored for the date are those one run alone      *)
(* leaves (alone on the empty date, or alone after the other run ended).   *)
C30_SameDateSerializable ==
    (AllDone /\ SameDate) =>
        /\ \A j \in JobIds :
              StatusOf(job_db, j) = "failed" => RunAloneFor(1).status = "failed"
        /\ StoredFor(1) \in {RowsOf(RunAloneFor(1)), RowsOf(RunTwiceFor(1))}
(* The moves of a job row's status the lifecycle allows *)
StatusMoves ==
    {<<"none", "pending">>, <<"pending", "running">>,
     <<"running", "completed">>, <<"running", "failed">>}

StatusMovesInOrder ==
    \A j \in JobIds :
       StatusOf(job_db', j) # StatusOf(job_db, j)
          => <<StatusOf(job_db, j), StatusOf(job_db', j)>> \in StatusMoves

(* The database refused the last status update the job attempts *)
UpdateRefused(j) == "handler" \in job_threads[j].refused

(* C28: the status of a job only moves pending -> running -> completed or  *)
(* failed; a job that has set 'running' eventually sets 'completed' or     *)
(* 'failed' unless the database refuses the update; and a job is           *)
(* 'completed' only if its activity collection did not fail.               *)
C28_StatusLifecycle ==
    /\ [][StatusMovesInOrder]_vars
    /\ \A j \in JobIds :
          (StatusOf(job_db, j) = "running")
             ~> (StatusOf(job_db, j) \in {"completed", "failed"} \/ UpdateRefused(j))
    /\ [](\A j \in JobIds :
             StatusOf(job_db, j) = "completed"
                => job_threads[j].activity_collection_success)

====
